---- MODULE Spec2Model ----
(***************************************************************************)
(* balancebeam (proj-2): a load-balancing reverse proxy.  One ProxyState    *)
(* behind a tokio Mutex is shared by the active health checker and by one  *)
(* handle_connection task per accepted client connection.                  *)
(*                                                                         *)
(* Spec is the whole proxy.  ConnectSpec is the part up to the moment a    *)
(* handler holds its upstream connection (accept, connect_to_upstream, the *)
(* 502 answer) together with the health checker; FairConnectSpec adds the  *)
(* scheduling guarantees of the tokio runtime to it.  ServeSpec is the     *)
(* rate limiter in the request loop of handlers that hold their            *)
(* connection, HandleSpec that loop with every outcome of its reads and    *)
(* writes, SessionSpec whole sessions next to one health-check cycle,      *)
(* RateSessionSpec the same under a rate limit, ContendSpec the same with  *)
(* a connected client competing for the lock.                              *)
(*                                                                         *)
(* The other executables of the repository have their own variables and    *)
(* specifications: MapSpec and FairMapSpec for parallel_map (week6),       *)
(* TicketSpec and FairTicketSpec for ticket-agent (demo), DeetSpec for the *)
(* breakpoints of the deet debugger (proj-1), ListSpec for LinkedList      *)
(* (week3).  While one executable runs, the variables of the others stay   *)
(* at their not-started values.                                            *)
(***************************************************************************)
EXTENDS Integers, Sequences, FiniteSets, TLC

(* ------------------------------ bounds -------------------------------- *)
NumUpstreams == 2
NumHandlers == 2
MaxRequests == 2
MaxLimit == 1
MaxTicks == 2
MaxLen == 2
MaxThreads == 2
MaxValue == 2
MaxAddr == 2
MaxBreakpoints == 2
MaxCalls == 4

(* ------------------------- program constants -------------------------- *)
WindowSecs == 60
OK == 200
BAD_REQUEST == 400
PAYLOAD_TOO_LARGE == 413
TOO_MANY_REQUESTS == 429
BAD_GATEWAY == 502
SERVICE_UNAVAILABLE == 503
InitialTickets == 250
NumAgents == 10
TRAP == 204

Upstreams == 0 .. (NumUpstreams - 1)
Handlers == 1 .. NumHandlers
ClientIps == {"10.0.0.1", "10.0.0.2"}
NoOwner == 0
NoConn == NumUpstreams
NoResponse == 0
TickStep == WindowSecs \div 2
MaxTime == MaxTicks * TickStep
active_health_check_interval == TickStep
ResponseStatuses == {OK, SERVICE_UNAVAILABLE}
XffChains == {<<>>, <<"192.0.2.1", "192.0.2.2">>}
ReadResults ==
    {"Ok", "IncompleteRequest0", "ConnectionError", "IncompleteRequest",
     "MalformedRequest", "InvalidContentLength", "ContentLengthMismatch",
     "RequestBodyTooLarge"}

VARIABLES
    upstream_states,            \* ProxyState.upstream_states
    client_requests_map,        \* ProxyState.client_requests_map: ip -> (when, count)
    max_requests_per_minute,    \* ProxyState.max_requests_per_minute
    upstream_addresses,         \* ProxyState.upstream_addresses, in configuration order
    mutex,                      \* owner of the tokio Mutex around ProxyState
    now,                        \* the clock read by Instant::now / elapsed, in seconds
    pc,                         \* position of each handle_connection task
    client_ip,                  \* peer address of each client connection
    upstream_idx,               \* connect_to_upstream's local upstream_idx
    upstream_conn,              \* the upstream each handler is connected to
    response,                   \* the response a handler is passing to send_response
    requests_read,              \* requests the clients have sent so far
    request,                    \* what read_from_stream returned to a handler
    upstream_sent,              \* requests written to the upstream, not yet answered
    rate_log,                   \* the rate limiter's decisions, in order
    hc_pc,                      \* position of the active_health_check task
    hc_idx,                     \* active_health_check's loop variable upstream_idx
    hc_wake,                    \* deadline of the checker's delay_for
    probe,                      \* outcome of the probe's connect, write and read
    \* week6/parallel_map
    input_vec,                  \* parallel_map's argument input_vec
    num_threads,                \* parallel_map's argument num_threads
    output_vec,                 \* parallel_map's output_vec
    receiver,                   \* messages in the channel (sender, receiver)
    receiver_re,                \* messages in the channel (sender_re, receiver_re)
    index,                      \* the sending loop's index
    joined,                     \* worker threads joined so far
    pm_pc,                      \* position of the thread that runs parallel_map
    worker_pc,                  \* position of each worker thread
    next_elem,                  \* the message a worker has received
    \* demo/ticket-agent
    remainingTickets,           \* the counter behind Arc<Mutex<usize>>
    remainingTicketsRef,        \* the agent that holds the MutexGuard, if any
    agent_pc,                   \* position of each ticketAgent thread
    sold,                       \* "sold a ticket" lines printed so far
    ticket_main,                \* position of main of ticket-agent
    \* proj-1/deet
    target_text,                \* the instruction bytes of the target program
    breakpoints,                \* Debugger.breakpoints
    inferior,                   \* Debugger.inferior: "None" or "Some"
    memory,                     \* the instruction bytes in the inferior's memory
    breakpoints_mapping,        \* Inferior.breakpoints_mapping
    rip,                        \* the stopped inferior's instruction pointer
    \* week3/linked_list
    list,                       \* the LinkedList: head and size
    calls,                      \* push_front and pop_front calls made so far
    pushes,                     \* push_front calls made so far
    pops,                       \* pop_front calls that returned Some
    pushed,                     \* the values pushed and not yet popped, latest first
    popped                      \* what the last pop_front returned

balancebeam_vars ==
    <<upstream_states, client_requests_map, max_requests_per_minute,
      upstream_addresses, mutex, now,
      pc, client_ip, upstream_idx, upstream_conn, response, requests_read,
      request, upstream_sent, rate_log, hc_pc, hc_idx, hc_wake, probe>>

parallel_map_vars ==
    <<input_vec, num_threads, output_vec, receiver, receiver_re, index, joined,
      pm_pc, worker_pc, next_elem>>

ticket_agent_vars ==
    <<remainingTickets, remainingTicketsRef, agent_pc, sold, ticket_main>>

deet_vars ==
    <<target_text, breakpoints, inferior, memory, breakpoints_mapping, rip>>

linked_list_vars == <<list, calls, pushes, pops, pushed, popped>>

vars ==
    <<balancebeam_vars, parallel_map_vars, ticket_agent_vars, deet_vars,
      linked_list_vars>>

\* The programs of the repository are separate executables: while one of them
\* runs, the state of the others stays as it is before they start.
not_balancebeam == <<parallel_map_vars, ticket_agent_vars, deet_vars, linked_list_vars>>
not_parallel_map == <<balancebeam_vars, ticket_agent_vars, deet_vars, linked_list_vars>>
not_ticket_agent == <<balancebeam_vars, parallel_map_vars, deet_vars, linked_list_vars>>
not_deet == <<balancebeam_vars, parallel_map_vars, ticket_agent_vars, linked_list_vars>>
not_linked_list == <<balancebeam_vars, parallel_map_vars, ticket_agent_vars, deet_vars>>

proxy_state ==
    <<upstream_states, client_requests_map, max_requests_per_minute, upstream_addresses>>
handler_vars ==
    <<pc, client_ip, upstream_idx, upstream_conn, response, requests_read, request,
      upstream_sent>>
checker_vars == <<hc_pc, hc_idx, hc_wake, probe>>

\* options.upstream: the address of an upstream is written as its position.
ConfiguredUpstreams == [i \in Upstreams |-> i]

NoRequest == [result |-> "None", xff |-> <<>>]

NoProbe == [connect |-> FALSE, write |-> FALSE, read |-> FALSE, status |-> NoResponse]

\* main of balancebeam has not been called.
BalancebeamNotStarted ==
    /\ upstream_addresses = <<>>
    /\ upstream_states = <<>>
    /\ client_requests_map = <<>>
    /\ max_requests_per_minute = 0
    /\ mutex = NoOwner
    /\ now = 0
    /\ pc = <<>>
    /\ client_ip = <<>>
    /\ upstream_idx = <<>>
    /\ upstream_conn = <<>>
    /\ response = <<>>
    /\ requests_read = 0
    /\ request = <<>>
    /\ upstream_sent = <<>>
    /\ rate_log = <<>>
    /\ hc_pc = "idle"
    /\ hc_idx = 0
    /\ hc_wake = 0
    /\ probe = NoProbe

\* Option::None, Option::Some(value) and a Box<Node<T>>.
None == [tag |-> "None"]
Some(value) == [tag |-> "Some", value |-> value]
Node(value, next) == [tag |-> "Some", value |-> value, next |-> next]

\* No LinkedList has been made.
LinkedListNotStarted ==
    /\ list = None
    /\ calls = 0
    /\ pushes = 0
    /\ pops = 0
    /\ pushed = <<>>
    /\ popped = None

\* deet has not been started.
DeetNotStarted ==
    /\ target_text = <<>>
    /\ breakpoints = <<>>
    /\ inferior = "None"
    /\ memory = <<>>
    /\ breakpoints_mapping = <<>>
    /\ rip = 0

\* main of ticket-agent has not been called.
TicketAgentNotStarted ==
    /\ remainingTickets = 0
    /\ remainingTicketsRef = 0
    /\ agent_pc = <<>>
    /\ sold = 0
    /\ ticket_main = "idle"

\* parallel_map has not been called.
ParallelMapNotStarted ==
    /\ input_vec = <<>>
    /\ num_threads = 0
    /\ output_vec = <<>>
    /\ receiver = <<>>
    /\ receiver_re = <<>>
    /\ index = 0
    /\ joined = 0
    /\ pm_pc = "idle"
    /\ worker_pc = <<>>
    /\ next_elem = <<>>

Init ==
    /\ upstream_addresses = ConfiguredUpstreams
    /\ upstream_states = [i \in DOMAIN upstream_addresses |-> TRUE]
    /\ client_requests_map = <<>>
    /\ max_requests_per_minute \in 0 .. MaxLimit
    /\ mutex = NoOwner
    /\ now = 0
    /\ pc = [h \in Handlers |-> "idle"]
    /\ client_ip \in {f \in [Handlers -> ClientIps] : f[1] = "10.0.0.1"}
    /\ upstream_idx = [h \in Handlers |-> 0]
    /\ upstream_conn = [h \in Handlers |-> NoConn]
    /\ response = [h \in Handlers |-> NoResponse]
    /\ requests_read = 0
    /\ request = [h \in Handlers |-> NoRequest]
    /\ upstream_sent = [h \in Handlers |-> <<>>]
    /\ rate_log = <<>>
    /\ hc_pc = "init"
    /\ hc_idx = 0
    /\ hc_wake = 0
    /\ probe = NoProbe
    /\ ParallelMapNotStarted
    /\ TicketAgentNotStarted
    /\ DeetNotStarted
    /\ LinkedListNotStarted

(* ------------------------------- clock -------------------------------- *)
Tick ==
    /\ now + TickStep <= MaxTime
    /\ now' = now + TickStep
    /\ UNCHANGED <<proxy_state, mutex, handler_vars, rate_log, checker_vars>>
    /\ UNCHANGED not_balancebeam

(* ------------------------ active_health_check ------------------------- *)
HCInit ==
    /\ hc_pc = "init"
    /\ mutex = NoOwner
    /\ hc_pc' = "sleep"
    /\ hc_wake' = now + active_health_check_interval
    /\ UNCHANGED <<proxy_state, mutex, now, handler_vars, rate_log, hc_idx, probe>>
    /\ UNCHANGED not_balancebeam

HCSleep_NoWait ==
    /\ hc_pc = "sleep"
    /\ hc_pc' = "probe"
    /\ hc_idx' = 0
    /\ UNCHANGED <<proxy_state, mutex, now, handler_vars, rate_log, hc_wake, probe>>
    /\ UNCHANGED not_balancebeam

HCSleep ==
    /\ hc_pc = "sleep"
    /\ now >= hc_wake
    /\ hc_pc' = "probe"
    /\ hc_idx' = 0
    /\ UNCHANGED <<proxy_state, mutex, now, handler_vars, rate_log, hc_wake, probe>>
    /\ UNCHANGED not_balancebeam

ProbeOutcomes ==
    {NoProbe}
    \cup { [connect |-> TRUE, write |-> w, read |-> FALSE, status |-> NoResponse] :
             w \in BOOLEAN }
    \cup { [connect |-> TRUE, write |-> w, read |-> TRUE, status |-> s] :
             w \in BOOLEAN, s \in ResponseStatuses }

ProbeVerdict_Optimistic(p) == TRUE

ProbeVerdict(p) ==
    IF p.connect
    THEN IF p.read THEN p.status = OK ELSE FALSE
    ELSE FALSE

HCProbe ==
    /\ hc_pc = "probe"
    /\ \E p \in ProbeOutcomes : probe' = p
    /\ hc_pc' = "write"
    /\ UNCHANGED <<proxy_state, mutex, now, handler_vars, rate_log, hc_idx, hc_wake>>
    /\ UNCHANGED not_balancebeam

HCWrite_Abort ==
    /\ hc_pc = "write"
    /\ mutex = NoOwner
    /\ upstream_states' = [upstream_states EXCEPT ![hc_idx] = ProbeVerdict(probe)]
    /\ probe' = NoProbe
    /\ IF hc_idx + 1 < NumUpstreams /\ ProbeVerdict(probe)
       THEN /\ hc_idx' = hc_idx + 1
            /\ hc_pc' = "probe"
            /\ UNCHANGED hc_wake
       ELSE /\ hc_pc' = "sleep"
            /\ hc_wake' = now + active_health_check_interval
            /\ UNCHANGED hc_idx
    /\ UNCHANGED <<client_requests_map, max_requests_per_minute, upstream_addresses,
                   mutex, now,
                   handler_vars, rate_log>>
    /\ UNCHANGED not_balancebeam

HCWrite_Late ==
    /\ hc_pc = "write"
    /\ mutex = NoOwner
    /\ probe' = NoProbe
    /\ IF hc_idx + 1 < NumUpstreams
       THEN /\ hc_idx' = hc_idx + 1
            /\ hc_pc' = "probe"
            /\ UNCHANGED <<hc_wake, upstream_states>>
       ELSE /\ upstream_states' =
                 [upstream_states EXCEPT ![hc_idx] = ProbeVerdict(probe)]
            /\ hc_pc' = "sleep"
            /\ hc_wake' = now + active_health_check_interval
            /\ UNCHANGED hc_idx
    /\ UNCHANGED <<client_requests_map, max_requests_per_minute, upstream_addresses,
                   mutex, now, handler_vars, rate_log>>
    /\ UNCHANGED not_balancebeam

HCWrite_NoLock ==
    /\ hc_pc = "write"
    /\ upstream_states' = [upstream_states EXCEPT ![hc_idx] = ProbeVerdict(probe)]
    /\ probe' = NoProbe
    /\ IF hc_idx + 1 < NumUpstreams
       THEN /\ hc_idx' = hc_idx + 1
            /\ hc_pc' = "probe"
            /\ UNCHANGED hc_wake
       ELSE /\ hc_pc' = "sleep"
            /\ hc_wake' = now + active_health_check_interval
            /\ UNCHANGED hc_idx
    /\ UNCHANGED <<client_requests_map, max_requests_per_minute, upstream_addresses,
                   mutex, now,
                   handler_vars, rate_log>>
    /\ UNCHANGED not_balancebeam

HCWrite ==
    /\ hc_pc = "write"
    /\ mutex = NoOwner
    /\ upstream_states' = [upstream_states EXCEPT ![hc_idx] = ProbeVerdict(probe)]
    /\ probe' = NoProbe
    /\ IF hc_idx + 1 < NumUpstreams
       THEN /\ hc_idx' = hc_idx + 1
            /\ hc_pc' = "probe"
            /\ UNCHANGED hc_wake
       ELSE /\ hc_pc' = "sleep"
            /\ hc_wake' = now + active_health_check_interval
            /\ UNCHANGED hc_idx
    /\ UNCHANGED <<client_requests_map, max_requests_per_minute, upstream_addresses,
                   mutex, now,
                   handler_vars, rate_log>>
    /\ UNCHANGED not_balancebeam

(* ------------------------------- main --------------------------------- *)
Accept(h) ==
    /\ pc[h] = "idle"
    /\ pc' = [pc EXCEPT ![h] = "connect"]
    /\ UNCHANGED <<proxy_state, mutex, now, client_ip, upstream_idx, upstream_conn,
                   response, requests_read, rate_log, checker_vars,
                   request, upstream_sent>>
    /\ UNCHANGED not_balancebeam

(* ------------------------- connect_to_upstream ------------------------ *)
AnyAlive == \E i \in Upstreams : upstream_states[i]

SelLock_NoMutex(h) ==
    /\ pc[h] = "connect"
    /\ mutex = NoOwner
    /\ IF ~AnyAlive
       THEN /\ pc' = [pc EXCEPT ![h] = "send_return"]
            /\ response' = [response EXCEPT ![h] = BAD_GATEWAY]
       ELSE /\ pc' = [pc EXCEPT ![h] = "sel_loop"]
            /\ UNCHANGED response
    /\ UNCHANGED <<proxy_state, mutex, now, client_ip, upstream_idx, upstream_conn,
                   requests_read, rate_log, checker_vars,
                   request, upstream_sent>>
    /\ UNCHANGED not_balancebeam

SelLock_NoCheck(h) ==
    /\ pc[h] = "connect"
    /\ mutex = NoOwner
    /\ pc' = [pc EXCEPT ![h] = "sel_loop"]
    /\ mutex' = h
    /\ UNCHANGED <<proxy_state, now, client_ip, upstream_idx, upstream_conn, response,
                   requests_read, rate_log, checker_vars,
                   request, upstream_sent>>
    /\ UNCHANGED not_balancebeam

SelLock_ErrContinues(h) ==
    /\ pc[h] = "connect"
    /\ mutex = NoOwner
    /\ IF ~AnyAlive
       THEN /\ pc' = [pc EXCEPT ![h] = "send_continue"]
            /\ response' = [response EXCEPT ![h] = BAD_GATEWAY]
            /\ UNCHANGED mutex
       ELSE /\ pc' = [pc EXCEPT ![h] = "sel_loop"]
            /\ mutex' = h
            /\ UNCHANGED response
    /\ UNCHANGED <<proxy_state, now, client_ip, upstream_idx, upstream_conn,
                   requests_read, rate_log, checker_vars,
                   request, upstream_sent>>
    /\ UNCHANGED not_balancebeam

SelLock(h) ==
    /\ pc[h] = "connect"
    /\ mutex = NoOwner
    /\ IF ~AnyAlive
       THEN /\ pc' = [pc EXCEPT ![h] = "send_return"]
            /\ response' = [response EXCEPT ![h] = BAD_GATEWAY]
            /\ UNCHANGED mutex
       ELSE /\ pc' = [pc EXCEPT ![h] = "sel_loop"]
            /\ mutex' = h
            /\ UNCHANGED response
    /\ UNCHANGED <<proxy_state, now, client_ip, upstream_idx, upstream_conn,
                   requests_read, rate_log, checker_vars,
                   request, upstream_sent>>
    /\ UNCHANGED not_balancebeam

SelDraw_NoDeadCheck(h, idx) ==
    /\ pc[h] = "sel_loop"
    /\ upstream_idx' = [upstream_idx EXCEPT ![h] = idx]
    /\ pc' = [pc EXCEPT ![h] = "sel_connect"]
    /\ UNCHANGED <<proxy_state, mutex, now, client_ip, upstream_conn, response,
                   requests_read, rate_log, checker_vars,
                   request, upstream_sent>>
    /\ UNCHANGED not_balancebeam

SelDraw(h, idx) ==
    /\ pc[h] = "sel_loop"
    /\ upstream_idx' = [upstream_idx EXCEPT ![h] = idx]
    /\ IF ~upstream_states[idx]
       THEN UNCHANGED pc
       ELSE pc' = [pc EXCEPT ![h] = "sel_connect"]
    /\ UNCHANGED <<proxy_state, mutex, now, client_ip, upstream_conn, response,
                   requests_read, rate_log, checker_vars,
                   request, upstream_sent>>
    /\ UNCHANGED not_balancebeam

SelConnect_MarksAll(h, ok) ==
    /\ pc[h] = "sel_connect"
    /\ IF ok
       THEN /\ upstream_conn' = [upstream_conn EXCEPT ![h] = upstream_idx[h]]
            /\ upstream_idx' = [upstream_idx EXCEPT ![h] = 0]
            /\ pc' = [pc EXCEPT ![h] = "read"]
            /\ mutex' = NoOwner
            /\ UNCHANGED upstream_states
       ELSE /\ upstream_states' = [i \in DOMAIN upstream_states |-> FALSE]
            /\ pc' = [pc EXCEPT ![h] = "sel_loop"]
            /\ UNCHANGED <<upstream_conn, upstream_idx, mutex>>
    /\ UNCHANGED <<client_requests_map, max_requests_per_minute, upstream_addresses,
                   now, client_ip,
                   response, requests_read, rate_log, checker_vars,
                   request, upstream_sent>>
    /\ UNCHANGED not_balancebeam

SelConnect(h, ok) ==
    /\ pc[h] = "sel_connect"
    /\ IF ok
       THEN /\ upstream_conn' = [upstream_conn EXCEPT ![h] = upstream_idx[h]]
            /\ upstream_idx' = [upstream_idx EXCEPT ![h] = 0]
            /\ pc' = [pc EXCEPT ![h] = "read"]
            /\ mutex' = NoOwner
            /\ UNCHANGED upstream_states
       ELSE /\ upstream_states' = [upstream_states EXCEPT ![upstream_idx[h]] = FALSE]
            /\ pc' = [pc EXCEPT ![h] = "sel_loop"]
            /\ UNCHANGED <<upstream_conn, upstream_idx, mutex>>
    /\ UNCHANGED <<client_requests_map, max_requests_per_minute, upstream_addresses,
                   now, client_ip,
                   response, requests_read, rate_log, checker_vars,
                   request, upstream_sent>>
    /\ UNCHANGED not_balancebeam

(* --------------------------- send_response ---------------------------- *)
SendResponse_Reselect(h, ok) ==
    /\ pc[h] \in {"send_continue", "send_return"}
    /\ response' = [response EXCEPT ![h] = NoResponse]
    /\ request' = [request EXCEPT ![h] = NoRequest]
    /\ IF ok
       THEN /\ pc' = [pc EXCEPT ![h] = IF pc[h] = "send_continue"
                                      THEN "connect" ELSE "done"]
            /\ mutex' = IF mutex = h THEN NoOwner ELSE mutex
       ELSE /\ pc' = [pc EXCEPT ![h] = IF pc[h] = "send_continue"
                                      THEN "warn_continue" ELSE "warn_return"]
            /\ UNCHANGED mutex
    /\ UNCHANGED <<proxy_state, now, client_ip, upstream_idx, upstream_conn,
                   requests_read, upstream_sent, rate_log, checker_vars>>
    /\ UNCHANGED not_balancebeam

SendResponse_NoContinue(h, ok) ==
    /\ pc[h] \in {"send_continue", "send_return"}
    /\ response' = [response EXCEPT ![h] = NoResponse]
    /\ IF ok
       THEN /\ pc' = [pc EXCEPT ![h] = IF pc[h] = "send_continue"
                                      THEN "forward" ELSE "done"]
            /\ mutex' = IF mutex = h THEN NoOwner ELSE mutex
            /\ UNCHANGED request
       ELSE /\ pc' = [pc EXCEPT ![h] = IF pc[h] = "send_continue"
                                      THEN "warn_continue" ELSE "warn_return"]
            /\ request' = [request EXCEPT ![h] = NoRequest]
            /\ UNCHANGED mutex
    /\ UNCHANGED <<proxy_state, now, client_ip, upstream_idx, upstream_conn,
                   requests_read, upstream_sent, rate_log, checker_vars>>
    /\ UNCHANGED not_balancebeam

\* The write of the response.  When it succeeds send_response returns and the caller
\* goes on (continue or return); when it fails send_response is at its log::warn!.
SendResponse(h, ok) ==
    /\ pc[h] \in {"send_continue", "send_return"}
    /\ response' = [response EXCEPT ![h] = NoResponse]
    /\ request' = [request EXCEPT ![h] = NoRequest]
    /\ IF ok
       THEN /\ pc' = [pc EXCEPT ![h] = IF pc[h] = "send_continue" THEN "read" ELSE "done"]
            /\ mutex' = IF mutex = h THEN NoOwner ELSE mutex
       ELSE /\ pc' = [pc EXCEPT ![h] = IF pc[h] = "send_continue"
                                      THEN "warn_continue" ELSE "warn_return"]
            /\ UNCHANGED mutex
    /\ UNCHANGED <<proxy_state, now, client_ip, upstream_idx, upstream_conn,
                   requests_read, upstream_sent, rate_log, checker_vars>>
    /\ UNCHANGED not_balancebeam

\* send_response returns after the failed write; the caller goes on as after a
\* successful one.
SendResponseErr(h) ==
    /\ pc[h] \in {"warn_continue", "warn_return"}
    /\ pc' = [pc EXCEPT ![h] = IF pc[h] = "warn_continue" THEN "read" ELSE "done"]
    /\ mutex' = IF mutex = h THEN NoOwner ELSE mutex
    /\ UNCHANGED <<proxy_state, now, client_ip, upstream_idx, upstream_conn, response,
                   requests_read, request, upstream_sent, rate_log, checker_vars>>
    /\ UNCHANGED not_balancebeam

(* -------------------------- handle_connection ------------------------- *)
ErrorStatus_AllBadRequest(error) == BAD_REQUEST

ErrorStatus(error) ==
    CASE error \in {"IncompleteRequest", "MalformedRequest", "InvalidContentLength",
                    "ContentLengthMismatch"} -> BAD_REQUEST
      [] error = "RequestBodyTooLarge" -> PAYLOAD_TOO_LARGE
      [] OTHER -> SERVICE_UNAVAILABLE

ReadRequest_NoConnectionArm(h, result, chain) ==
    /\ pc[h] = "read"
    /\ IF result = "IncompleteRequest0"
       THEN /\ pc' = [pc EXCEPT ![h] = "done"]
            /\ UNCHANGED <<response, requests_read, request>>
       ELSE /\ requests_read < MaxRequests
            /\ requests_read' = requests_read + 1
            /\ IF result = "Ok"
               THEN /\ pc' = [pc EXCEPT ![h] = "rate"]
                    /\ request' = [request EXCEPT
                                     ![h] = [result |-> "Ok", xff |-> chain]]
                    /\ UNCHANGED response
               ELSE /\ pc' = [pc EXCEPT ![h] = "send_continue"]
                    /\ request' = [request EXCEPT
                                     ![h] = [result |-> result, xff |-> <<>>]]
                    /\ response' = [response EXCEPT ![h] = ErrorStatus(result)]
    /\ UNCHANGED <<proxy_state, mutex, now, client_ip, upstream_idx, upstream_conn,
                   upstream_sent, rate_log, checker_vars>>
    /\ UNCHANGED not_balancebeam

ReadRequest(h, result, chain) ==
    /\ pc[h] = "read"
    /\ IF result \in {"IncompleteRequest0", "ConnectionError"}
       THEN /\ pc' = [pc EXCEPT ![h] = "done"]
            /\ UNCHANGED <<response, requests_read, request>>
       ELSE /\ requests_read < MaxRequests
            /\ requests_read' = requests_read + 1
            /\ IF result = "Ok"
               THEN /\ pc' = [pc EXCEPT ![h] = "rate"]
                    /\ request' = [request EXCEPT
                                     ![h] = [result |-> "Ok", xff |-> chain]]
                    /\ UNCHANGED response
               ELSE /\ pc' = [pc EXCEPT ![h] = "send_continue"]
                    /\ request' = [request EXCEPT
                                     ![h] = [result |-> result, xff |-> <<>>]]
                    /\ response' = [response EXCEPT ![h] = ErrorStatus(result)]
    /\ UNCHANGED <<proxy_state, mutex, now, client_ip, upstream_idx, upstream_conn,
                   upstream_sent, rate_log, checker_vars>>
    /\ UNCHANGED not_balancebeam

Disabled_Never(limits) == FALSE

Disabled(limits) == limits = 0

Elapsed(when) == now - when

Count_Reset(entry) == 0

Count(entry) == IF Elapsed(entry.when) >= WindowSecs THEN 0 ELSE entry.count

OverLimit_Never(count, limits) == FALSE

OverLimit_OffByOne(count, limits) == count > limits

OverLimit(count, limits) == count >= limits

Decision(ip, when, allowed) == [ip |-> ip, at |-> now, when |-> when, allowed |-> allowed]

Insert_Replace(map, ip, entry) == [k \in {ip} |-> entry]

Insert(map, ip, entry) ==
    [k \in (DOMAIN map) \cup {ip} |-> IF k = ip THEN entry ELSE map[k]]

RateLimit_NoLock(h) ==
    LET ip == client_ip[h]
        limits == max_requests_per_minute
        map_cloned == client_requests_map
    IN
    /\ pc[h] = "rate"
    /\ IF Disabled(limits)
       THEN /\ pc' = [pc EXCEPT ![h] = "forward"]
            /\ UNCHANGED <<client_requests_map, mutex, response, rate_log>>
       ELSE IF ip \notin DOMAIN map_cloned
       THEN /\ client_requests_map' =
                 Insert(client_requests_map, ip, [when |-> now, count |-> 1])
            /\ rate_log' = Append(rate_log, Decision(ip, now, TRUE))
            /\ pc' = [pc EXCEPT ![h] = "forward"]
            /\ UNCHANGED <<mutex, response>>
       ELSE LET when == map_cloned[ip].when
                count == Count(map_cloned[ip])
            IN
            IF OverLimit(count, limits)
            THEN /\ response' = [response EXCEPT ![h] = TOO_MANY_REQUESTS]
                 /\ pc' = [pc EXCEPT ![h] = "send_continue"]
                 /\ mutex' = h
                 /\ rate_log' = Append(rate_log, Decision(ip, when, FALSE))
                 /\ UNCHANGED client_requests_map
            ELSE /\ client_requests_map' =
                      Insert(client_requests_map, ip,
                             [when |-> when, count |-> count + 1])
                 /\ rate_log' = Append(rate_log, Decision(ip, when, TRUE))
                 /\ pc' = [pc EXCEPT ![h] = "forward"]
                 /\ UNCHANGED <<mutex, response>>
    /\ UNCHANGED <<upstream_states, max_requests_per_minute, upstream_addresses,
                   now, client_ip,
                   upstream_idx, upstream_conn, requests_read, checker_vars,
                   request, upstream_sent>>
    /\ UNCHANGED not_balancebeam

RateLimit(h) ==
    LET ip == client_ip[h]
        limits == max_requests_per_minute
        map_cloned == client_requests_map
    IN
    /\ pc[h] = "rate"
    /\ mutex = NoOwner
    /\ IF Disabled(limits)
       THEN /\ pc' = [pc EXCEPT ![h] = "forward"]
            /\ UNCHANGED <<client_requests_map, mutex, response, rate_log>>
       ELSE IF ip \notin DOMAIN map_cloned
       THEN /\ client_requests_map' =
                 Insert(client_requests_map, ip, [when |-> now, count |-> 1])
            /\ rate_log' = Append(rate_log, Decision(ip, now, TRUE))
            /\ pc' = [pc EXCEPT ![h] = "forward"]
            /\ UNCHANGED <<mutex, response>>
       ELSE LET when == map_cloned[ip].when
                count == Count(map_cloned[ip])
            IN
            IF OverLimit(count, limits)
            THEN /\ response' = [response EXCEPT ![h] = TOO_MANY_REQUESTS]
                 /\ pc' = [pc EXCEPT ![h] = "send_continue"]
                 /\ mutex' = h
                 /\ rate_log' = Append(rate_log, Decision(ip, when, FALSE))
                 /\ UNCHANGED client_requests_map
            ELSE /\ client_requests_map' =
                      Insert(client_requests_map, ip,
                             [when |-> when, count |-> count + 1])
                 /\ rate_log' = Append(rate_log, Decision(ip, when, TRUE))
                 /\ pc' = [pc EXCEPT ![h] = "forward"]
                 /\ UNCHANGED <<mutex, response>>
    /\ UNCHANGED <<upstream_states, max_requests_per_minute, upstream_addresses,
                   now, client_ip,
                   upstream_idx, upstream_conn, requests_read, checker_vars,
                   request, upstream_sent>>
    /\ UNCHANGED not_balancebeam

ForwardRequest_NoHeader(h, ok) ==
    /\ pc[h] = "forward"
    /\ IF ok
       THEN /\ pc' = [pc EXCEPT ![h] = "read_response"]
            /\ upstream_sent' =
                 [upstream_sent EXCEPT
                    ![h] = Append(upstream_sent[h],
                                  [to |-> upstream_conn[h], xff |-> request[h].xff])]
            /\ UNCHANGED response
       ELSE /\ pc' = [pc EXCEPT ![h] = "send_return"]
            /\ response' = [response EXCEPT ![h] = BAD_GATEWAY]
            /\ UNCHANGED upstream_sent
    /\ UNCHANGED <<proxy_state, mutex, now, client_ip, upstream_idx, upstream_conn,
                   requests_read, request, rate_log, checker_vars>>
    /\ UNCHANGED not_balancebeam

\* request::extend_header_value(request, "x-forwarded-for", client_ip): the value of
\* the header is kept as the list of its addresses.
ExtendHeaderValue(chain, ip) == Append(chain, ip)

ForwardRequest_MarksDead(h, ok) ==
    /\ pc[h] = "forward"
    /\ request' = [request EXCEPT
                     ![h].xff = ExtendHeaderValue(request[h].xff, client_ip[h])]
    /\ IF ok
       THEN /\ pc' = [pc EXCEPT ![h] = "read_response"]
            /\ upstream_sent' =
                 [upstream_sent EXCEPT
                    ![h] = Append(upstream_sent[h],
                                  [to |-> upstream_conn[h], xff |-> request'[h].xff])]
            /\ UNCHANGED <<response, upstream_states>>
       ELSE /\ pc' = [pc EXCEPT ![h] = "send_return"]
            /\ response' = [response EXCEPT ![h] = BAD_GATEWAY]
            /\ upstream_states' = [upstream_states EXCEPT ![upstream_conn[h]] = FALSE]
            /\ UNCHANGED upstream_sent
    /\ UNCHANGED <<client_requests_map, max_requests_per_minute, upstream_addresses,
                   mutex, now, client_ip, upstream_idx, upstream_conn,
                   requests_read, rate_log, checker_vars>>
    /\ UNCHANGED not_balancebeam

ForwardRequest_Pipelines(h, ok) ==
    /\ pc[h] = "forward"
    /\ request' = [request EXCEPT
                     ![h].xff = ExtendHeaderValue(request[h].xff, client_ip[h])]
    /\ IF ok
       THEN /\ pc' = [pc EXCEPT ![h] = "read"]
            /\ upstream_sent' =
                 [upstream_sent EXCEPT
                    ![h] = Append(upstream_sent[h],
                                  [to |-> upstream_conn[h], xff |-> request'[h].xff])]
            /\ UNCHANGED response
       ELSE /\ pc' = [pc EXCEPT ![h] = "send_return"]
            /\ response' = [response EXCEPT ![h] = BAD_GATEWAY]
            /\ UNCHANGED upstream_sent
    /\ UNCHANGED <<proxy_state, mutex, now, client_ip, upstream_idx, upstream_conn,
                   requests_read, rate_log, checker_vars>>
    /\ UNCHANGED not_balancebeam

ForwardRequest(h, ok) ==
    /\ pc[h] = "forward"
    /\ request' = [request EXCEPT
                     ![h].xff = ExtendHeaderValue(request[h].xff, client_ip[h])]
    /\ IF ok
       THEN /\ pc' = [pc EXCEPT ![h] = "read_response"]
            /\ upstream_sent' =
                 [upstream_sent EXCEPT
                    ![h] = Append(upstream_sent[h],
                                  [to |-> upstream_conn[h], xff |-> request'[h].xff])]
            /\ UNCHANGED response
       ELSE /\ pc' = [pc EXCEPT ![h] = "send_return"]
            /\ response' = [response EXCEPT ![h] = BAD_GATEWAY]
            /\ UNCHANGED upstream_sent
    /\ UNCHANGED <<proxy_state, mutex, now, client_ip, upstream_idx, upstream_conn,
                   requests_read, rate_log, checker_vars>>
    /\ UNCHANGED not_balancebeam

ReadResponse_Retry(h, ok, status) ==
    /\ pc[h] = "read_response"
    /\ IF ok
       THEN /\ pc' = [pc EXCEPT ![h] = "send_continue"]
            /\ response' = [response EXCEPT ![h] = status]
       ELSE /\ pc' = [pc EXCEPT ![h] = "forward"]
            /\ UNCHANGED response
    /\ upstream_sent' = [upstream_sent EXCEPT ![h] = <<>>]
    /\ UNCHANGED <<proxy_state, mutex, now, client_ip, upstream_idx, upstream_conn,
                   requests_read, request, rate_log, checker_vars>>
    /\ UNCHANGED not_balancebeam

ReadResponse(h, ok, status) ==
    /\ pc[h] = "read_response"
    /\ IF ok
       THEN /\ pc' = [pc EXCEPT ![h] = "send_continue"]
            /\ response' = [response EXCEPT ![h] = status]
       ELSE /\ pc' = [pc EXCEPT ![h] = "send_return"]
            /\ response' = [response EXCEPT ![h] = BAD_GATEWAY]
    /\ upstream_sent' = [upstream_sent EXCEPT ![h] = <<>>]
    /\ UNCHANGED <<proxy_state, mutex, now, client_ip, upstream_idx, upstream_conn,
                   requests_read, request, rate_log, checker_vars>>
    /\ UNCHANGED not_balancebeam

(* --------------------------- specifications --------------------------- *)
Next ==
    \/ Tick
    \/ HCInit
    \/ HCSleep
    \/ HCProbe
    \/ HCWrite
    \/ \E h \in Handlers : Accept(h)
    \/ \E h \in Handlers : SelLock(h)
    \/ \E h \in Handlers, idx \in Upstreams : SelDraw(h, idx)
    \/ \E h \in Handlers, ok \in BOOLEAN : SelConnect(h, ok)
    \/ \E h \in Handlers, ok \in BOOLEAN : SendResponse(h, ok)
    \/ \E h \in Handlers : SendResponseErr(h)
    \/ \E h \in Handlers, result \in ReadResults, chain \in XffChains :
          ReadRequest(h, result, chain)
    \/ \E h \in Handlers : RateLimit(h)
    \/ \E h \in Handlers, ok \in BOOLEAN : ForwardRequest(h, ok)
    \/ \E h \in Handlers, ok \in BOOLEAN, status \in ResponseStatuses :
          ReadResponse(h, ok, status)

Spec == Init /\ [][Next]_vars

\* Connection establishment and health checking: the rate limiter is not reached.
InitConnect ==
    /\ Init
    /\ max_requests_per_minute = 0
    /\ client_ip = [h \in Handlers |-> "10.0.0.1"]

NextConnect ==
    \/ Tick
    \/ HCInit
    \/ HCSleep
    \/ HCProbe
    \/ HCWrite
    \/ \E h \in Handlers : Accept(h)
    \/ \E h \in Handlers : SelLock(h)
    \/ \E h \in Handlers, idx \in Upstreams : SelDraw(h, idx)
    \/ \E h \in Handlers, ok \in BOOLEAN : SelConnect(h, ok)
    \/ \E h \in Handlers, ok \in BOOLEAN : SendResponse(h, ok)
    \/ \E h \in Handlers : SendResponseErr(h)

ConnectSpec == InitConnect /\ [][NextConnect]_vars

\* The tokio runtime polls every ready task, every connect attempt completes, every
\* draw of the uniform generator has each index come up, and the Mutex is fair.
FairConnectSpec ==
    /\ ConnectSpec
    /\ SF_vars(HCInit) /\ WF_vars(HCProbe) /\ SF_vars(HCWrite)
    /\ \A h \in Handlers :
         /\ WF_vars(Accept(h))
         /\ SF_vars(SelLock(h))
         /\ \A idx \in Upstreams : WF_vars(SelDraw(h, idx))
         /\ WF_vars(\E ok \in BOOLEAN : SelConnect(h, ok))
         /\ WF_vars(\E ok \in BOOLEAN : SendResponse(h, ok))
         /\ WF_vars(SendResponseErr(h))

\* The rate limiter in the request loop: every handler holds the connection
\* connect_to_upstream gave it, the clients take what is written to them and their
\* requests are well-formed or malformed, with no x-forwarded-for header.
InitServe ==
    /\ upstream_addresses = ConfiguredUpstreams
    /\ upstream_states = [i \in DOMAIN upstream_addresses |-> TRUE]
    /\ client_requests_map = <<>>
    /\ max_requests_per_minute \in 0 .. MaxLimit
    /\ mutex = NoOwner
    /\ now = 0
    /\ pc = [h \in Handlers |-> "read"]
    /\ client_ip \in {f \in [Handlers -> ClientIps] : f[1] = "10.0.0.1"}
    /\ upstream_idx = [h \in Handlers |-> 0]
    /\ upstream_conn = [h \in Handlers |-> 0]
    /\ response = [h \in Handlers |-> NoResponse]
    /\ requests_read = 0
    /\ request = [h \in Handlers |-> NoRequest]
    /\ upstream_sent = [h \in Handlers |-> <<>>]
    /\ rate_log = <<>>
    /\ hc_pc = "init"
    /\ hc_idx = 0
    /\ hc_wake = 0
    /\ probe = NoProbe
    /\ ParallelMapNotStarted
    /\ TicketAgentNotStarted
    /\ DeetNotStarted
    /\ LinkedListNotStarted

NextServe ==
    \/ Tick
    \/ \E h \in Handlers : SendResponse(h, TRUE)
    \/ \E h \in Handlers, result \in {"Ok", "IncompleteRequest0", "MalformedRequest"} :
          ReadRequest(h, result, <<>>)
    \/ \E h \in Handlers : RateLimit(h)
    \/ \E h \in Handlers, ok \in BOOLEAN : ForwardRequest(h, ok)
    \/ \E h \in Handlers, ok \in BOOLEAN, status \in ResponseStatuses :
          ReadResponse(h, ok, status)

ServeSpec == InitServe /\ [][NextServe]_vars

\* The request loop with every outcome of a read, a forward and a write, for clients
\* of one IP; the clock stands still.
InitHandle ==
    /\ InitServe
    /\ client_ip = [h \in Handlers |-> "10.0.0.1"]

NextHandle ==
    \/ \E h \in Handlers, ok \in BOOLEAN : SendResponse(h, ok)
    \/ \E h \in Handlers : SendResponseErr(h)
    \/ \E h \in Handlers, result \in ReadResults, chain \in XffChains :
          ReadRequest(h, result, chain)
    \/ \E h \in Handlers : RateLimit(h)
    \/ \E h \in Handlers, ok \in BOOLEAN : ForwardRequest(h, ok)
    \/ \E h \in Handlers, ok \in BOOLEAN, status \in ResponseStatuses :
          ReadResponse(h, ok, status)

HandleSpec == InitHandle /\ [][NextHandle]_vars

\* Whole sessions next to one cycle of the health checker: the checker is about to
\* probe upstream 0, the last client has come and gone, the others are still to be
\* accepted; no limit is configured and the clock stands still.
InitSession ==
    /\ upstream_addresses = ConfiguredUpstreams
    /\ upstream_states = [i \in DOMAIN upstream_addresses |-> TRUE]
    /\ client_requests_map = <<>>
    /\ max_requests_per_minute = 0
    /\ mutex = NoOwner
    /\ now = active_health_check_interval
    /\ pc = [h \in Handlers |-> IF h = NumHandlers THEN "done" ELSE "idle"]
    /\ client_ip = [h \in Handlers |-> "10.0.0.1"]
    /\ upstream_idx = [h \in Handlers |-> 0]
    /\ upstream_conn = [h \in Handlers |-> IF h = NumHandlers THEN 0 ELSE NoConn]
    /\ response = [h \in Handlers |-> NoResponse]
    /\ requests_read = 0
    /\ request = [h \in Handlers |-> NoRequest]
    /\ upstream_sent = [h \in Handlers |-> <<>>]
    /\ rate_log = <<>>
    /\ hc_pc = "probe"
    /\ hc_idx = 0
    /\ hc_wake = active_health_check_interval
    /\ probe = NoProbe
    /\ ParallelMapNotStarted
    /\ TicketAgentNotStarted
    /\ DeetNotStarted
    /\ LinkedListNotStarted

NextSession ==
    \/ HCProbe
    \/ HCWrite
    \/ \E h \in Handlers : Accept(h)
    \/ \E h \in Handlers : SelLock(h)
    \/ \E h \in Handlers, idx \in Upstreams : SelDraw(h, idx)
    \/ \E h \in Handlers, ok \in BOOLEAN : SelConnect(h, ok)
    \/ \E h \in Handlers, ok \in BOOLEAN : SendResponse(h, ok)
    \/ \E h \in Handlers : SendResponseErr(h)
    \/ \E h \in Handlers, result \in {"Ok", "IncompleteRequest0", "MalformedRequest"} :
          ReadRequest(h, result, <<>>)
    \/ \E h \in Handlers : RateLimit(h)
    \/ \E h \in Handlers, ok \in BOOLEAN : ForwardRequest(h, ok)
    \/ \E h \in Handlers, ok \in BOOLEAN, status \in ResponseStatuses :
          ReadResponse(h, ok, status)

SessionSpec == InitSession /\ [][NextSession]_vars

\* One cycle of the health checker next to sessions under a rate limit: as above,
\* but a limit is configured and the last client, of another address, has made
\* one request at time 0 before it left, so its entry is in the rate map.
InitRateSession ==
    /\ upstream_addresses = ConfiguredUpstreams
    /\ upstream_states = [i \in DOMAIN upstream_addresses |-> TRUE]
    /\ client_requests_map = Insert(<<>>, "10.0.0.2", [when |-> 0, count |-> 1])
    /\ max_requests_per_minute \in 1 .. MaxLimit
    /\ mutex = NoOwner
    /\ now = active_health_check_interval
    /\ pc = [h \in Handlers |-> IF h = NumHandlers THEN "done" ELSE "idle"]
    /\ client_ip = [h \in Handlers |-> IF h = NumHandlers THEN "10.0.0.2" ELSE "10.0.0.1"]
    /\ upstream_idx = [h \in Handlers |-> 0]
    /\ upstream_conn = [h \in Handlers |-> IF h = NumHandlers THEN 0 ELSE NoConn]
    /\ response = [h \in Handlers |-> NoResponse]
    /\ requests_read = 1
    /\ request = [h \in Handlers |-> NoRequest]
    /\ upstream_sent = [h \in Handlers |-> <<>>]
    /\ rate_log = <<[ip |-> "10.0.0.2", at |-> 0, when |-> 0, allowed |-> TRUE]>>
    /\ hc_pc = "probe"
    /\ hc_idx = 0
    /\ hc_wake = active_health_check_interval
    /\ probe = NoProbe
    /\ ParallelMapNotStarted
    /\ TicketAgentNotStarted
    /\ DeetNotStarted
    /\ LinkedListNotStarted

RateSessionSpec == InitRateSession /\ [][NextSession]_vars

\* Lock contention: as SessionSpec, but the last client is connected and in its
\* request loop instead of gone, so that its rate-limit checks compete with the
\* connect_to_upstream calls of the others and with the checker's writes; every
\* read, forward and write succeeds.
InitContend ==
    /\ upstream_addresses = ConfiguredUpstreams
    /\ upstream_states = [i \in DOMAIN upstream_addresses |-> TRUE]
    /\ client_requests_map = <<>>
    /\ max_requests_per_minute = 0
    /\ mutex = NoOwner
    /\ now = active_health_check_interval
    /\ pc = [h \in Handlers |-> IF h = NumHandlers THEN "read" ELSE "idle"]
    /\ client_ip = [h \in Handlers |-> "10.0.0.1"]
    /\ upstream_idx = [h \in Handlers |-> 0]
    /\ upstream_conn = [h \in Handlers |-> IF h = NumHandlers THEN 0 ELSE NoConn]
    /\ response = [h \in Handlers |-> NoResponse]
    /\ requests_read = 0
    /\ request = [h \in Handlers |-> NoRequest]
    /\ upstream_sent = [h \in Handlers |-> <<>>]
    /\ rate_log = <<>>
    /\ hc_pc = "probe"
    /\ hc_idx = 0
    /\ hc_wake = active_health_check_interval
    /\ probe = NoProbe
    /\ ParallelMapNotStarted
    /\ TicketAgentNotStarted
    /\ DeetNotStarted
    /\ LinkedListNotStarted

NextContend ==
    \/ HCProbe
    \/ HCWrite
    \/ \E h \in Handlers : Accept(h)
    \/ \E h \in Handlers : SelLock(h)
    \/ \E h \in Handlers, idx \in Upstreams : SelDraw(h, idx)
    \/ \E h \in Handlers, ok \in BOOLEAN : SelConnect(h, ok)
    \/ \E h \in Handlers : SendResponse(h, TRUE)
    \/ \E h \in Handlers, result \in {"Ok", "IncompleteRequest0"} :
          ReadRequest(h, result, <<>>)
    \/ \E h \in Handlers : RateLimit(h)
    \/ \E h \in Handlers : ForwardRequest(h, TRUE)
    \/ \E h \in Handlers : ReadResponse(h, TRUE, OK)

ContendSpec == InitContend /\ [][NextContend]_vars

(* ------------------------ week6/parallel_map -------------------------- *)
\* The elements are u32 numbers; output_vec is filled with U::default().
Values == 0 .. MaxValue
Default == 0

\* The closure that main passes to parallel_map.
f(num) == num * num

Workers == DOMAIN worker_pc

\* parallel_map is entered with its arguments; output_vec has been resized and the
\* two channels are empty.
InitMap ==
    /\ BalancebeamNotStarted
    /\ TicketAgentNotStarted
    /\ DeetNotStarted
    /\ LinkedListNotStarted
    /\ input_vec \in UNION {[1 .. n -> Values] : n \in 0 .. MaxLen}
    /\ num_threads \in 0 .. MaxThreads
    /\ output_vec = [i \in 1 .. Len(input_vec) |-> Default]
    /\ receiver = <<>>
    /\ receiver_re = <<>>
    /\ index = 0
    /\ joined = 0
    /\ pm_pc = "spawn"
    /\ worker_pc = <<>>
    /\ next_elem = <<>>

\* for _ in 0..num_threads: one thread::spawn per step.
Spawn ==
    /\ pm_pc = "spawn"
    /\ IF Len(worker_pc) < num_threads
       THEN /\ worker_pc' = Append(worker_pc, "recv")
            /\ next_elem' = Append(next_elem, <<>>)
            /\ UNCHANGED pm_pc
       ELSE /\ pm_pc' = "send"
            /\ UNCHANGED <<worker_pc, next_elem>>
    /\ UNCHANGED <<input_vec, num_threads, output_vec, receiver, receiver_re, index,
                   joined>>
    /\ UNCHANGED not_parallel_map

\* for elem in input_vec: sender.send((index, elem)); index = index + 1.
Send ==
    /\ pm_pc = "send"
    /\ IF index < Len(input_vec)
       THEN /\ receiver' = Append(receiver, <<index, input_vec[index + 1]>>)
            /\ index' = index + 1
            /\ UNCHANGED pm_pc
       ELSE /\ pm_pc' = "drop_sender"
            /\ UNCHANGED <<receiver, index>>
    /\ UNCHANGED <<input_vec, num_threads, output_vec, receiver_re, joined,
                   worker_pc, next_elem>>
    /\ UNCHANGED not_parallel_map

\* drop(sender)
DropSender ==
    /\ pm_pc = "drop_sender"
    /\ pm_pc' = "join"
    /\ UNCHANGED <<input_vec, num_threads, output_vec, receiver, receiver_re, index,
                   joined, worker_pc, next_elem>>
    /\ UNCHANGED not_parallel_map

\* for thread in threads: thread.join(), in the order of the spawns.
Join ==
    /\ pm_pc = "join"
    /\ IF joined < num_threads
       THEN /\ worker_pc[joined + 1] = "exit"
            /\ joined' = joined + 1
            /\ UNCHANGED pm_pc
       ELSE /\ pm_pc' = "drop_sender_re"
            /\ UNCHANGED joined
    /\ UNCHANGED <<input_vec, num_threads, output_vec, receiver, receiver_re, index,
                   worker_pc, next_elem>>
    /\ UNCHANGED not_parallel_map

\* drop(sender_re)
DropSenderRe ==
    /\ pm_pc = "drop_sender_re"
    /\ pm_pc' = "collect"
    /\ UNCHANGED <<input_vec, num_threads, output_vec, receiver, receiver_re, index,
                   joined, worker_pc, next_elem>>
    /\ UNCHANGED not_parallel_map

\* Every Sender of the first channel is gone: parallel_map has dropped `sender`.
SenderDisconnected == pm_pc \notin {"spawn", "send", "drop_sender"}

\* Every Sender of the second channel is gone: parallel_map has dropped `sender_re`
\* and every worker, which owns a clone, has finished.
SenderReDisconnected ==
    /\ pm_pc \notin {"spawn", "send", "drop_sender", "join", "drop_sender_re"}
    /\ \A w \in Workers : worker_pc[w] = "exit"

Collect_InArrivalOrder ==
    /\ pm_pc = "collect"
    /\ IF receiver_re # <<>>
       THEN /\ output_vec' =
                 [output_vec EXCEPT ![Len(input_vec) - Len(receiver_re) + 1] = Head(receiver_re)[2]]
            /\ receiver_re' = Tail(receiver_re)
            /\ UNCHANGED pm_pc
       ELSE /\ SenderReDisconnected
            /\ pm_pc' = "done"
            /\ UNCHANGED <<output_vec, receiver_re>>
    /\ UNCHANGED <<input_vec, num_threads, receiver, index, joined, worker_pc,
                   next_elem>>
    /\ UNCHANGED not_parallel_map

\* while let Ok(next_elem) = receiver_re.recv(): output_vec[index] = elem.
Collect ==
    /\ pm_pc = "collect"
    /\ IF receiver_re # <<>>
       THEN /\ output_vec' =
                 [output_vec EXCEPT ![Head(receiver_re)[1] + 1] = Head(receiver_re)[2]]
            /\ receiver_re' = Tail(receiver_re)
            /\ UNCHANGED pm_pc
       ELSE /\ SenderReDisconnected
            /\ pm_pc' = "done"
            /\ UNCHANGED <<output_vec, receiver_re>>
    /\ UNCHANGED <<input_vec, num_threads, receiver, index, joined, worker_pc,
                   next_elem>>
    /\ UNCHANGED not_parallel_map

WorkerRecv_NoDisconnect(w) ==
    /\ w \in Workers
    /\ worker_pc[w] = "recv"
    /\ receiver # <<>>
    /\ next_elem' = [next_elem EXCEPT ![w] = Head(receiver)]
    /\ receiver' = Tail(receiver)
    /\ worker_pc' = [worker_pc EXCEPT ![w] = "send"]
    /\ UNCHANGED <<input_vec, num_threads, output_vec, receiver_re, index, joined,
                   pm_pc>>
    /\ UNCHANGED not_parallel_map

\* A worker's receiver.recv(): the next message, or Err once the channel is empty
\* and disconnected, which ends the thread.
WorkerRecv(w) ==
    /\ w \in Workers
    /\ worker_pc[w] = "recv"
    /\ IF receiver # <<>>
       THEN /\ next_elem' = [next_elem EXCEPT ![w] = Head(receiver)]
            /\ receiver' = Tail(receiver)
            /\ worker_pc' = [worker_pc EXCEPT ![w] = "send"]
       ELSE /\ SenderDisconnected
            /\ worker_pc' = [worker_pc EXCEPT ![w] = "exit"]
            /\ UNCHANGED <<next_elem, receiver>>
    /\ UNCHANGED <<input_vec, num_threads, output_vec, receiver_re, index, joined,
                   pm_pc>>
    /\ UNCHANGED not_parallel_map

\* A worker's sender_re.send((index, f(elem))).
WorkerSend(w) ==
    /\ w \in Workers
    /\ worker_pc[w] = "send"
    /\ receiver_re' = Append(receiver_re, <<next_elem[w][1], f(next_elem[w][2])>>)
    /\ worker_pc' = [worker_pc EXCEPT ![w] = "recv"]
    /\ UNCHANGED <<input_vec, num_threads, output_vec, receiver, index, joined,
                   pm_pc, next_elem>>
    /\ UNCHANGED not_parallel_map

NextMap ==
    \/ Spawn
    \/ Send
    \/ DropSender
    \/ Join
    \/ DropSenderRe
    \/ Collect
    \/ \E w \in 1 .. MaxThreads : WorkerRecv(w)
    \/ \E w \in 1 .. MaxThreads : WorkerSend(w)

MapSpec == InitMap /\ [][NextMap]_vars

\* The operating system schedules every thread that can run.
FairMapSpec ==
    /\ MapSpec
    /\ WF_vars(Spawn \/ Send \/ DropSender \/ Join \/ DropSenderRe \/ Collect)
    /\ \A w \in 1 .. MaxThreads : WF_vars(WorkerRecv(w) \/ WorkerSend(w))

(* ------------------------- demo/ticket-agent -------------------------- *)
Agents == 1 .. NumAgents
NoAgent == 0

\* main has created the counter and spawned the agents.
InitTicket ==
    /\ BalancebeamNotStarted
    /\ ParallelMapNotStarted
    /\ DeetNotStarted
    /\ LinkedListNotStarted
    /\ remainingTickets = InitialTickets
    /\ remainingTicketsRef = NoAgent
    /\ agent_pc = [a \in Agents |-> "lock"]
    /\ sold = 0
    /\ ticket_main = "join"

\* remainingTickets.lock().unwrap()
AgentLock(a) ==
    /\ agent_pc[a] = "lock"
    /\ remainingTicketsRef = NoAgent
    /\ remainingTicketsRef' = a
    /\ agent_pc' = [agent_pc EXCEPT ![a] = "check"]
    /\ UNCHANGED <<remainingTickets, sold, ticket_main>>
    /\ UNCHANGED not_ticket_agent

AgentCheck_NoBreak(a) ==
    /\ agent_pc[a] = "check"
    /\ agent_pc' = [agent_pc EXCEPT ![a] = "sell"]
    /\ UNCHANGED <<remainingTickets, remainingTicketsRef, sold, ticket_main>>
    /\ UNCHANGED not_ticket_agent

\* if *remainingTicketsRef == 0 { break; }: the break drops the guard.
AgentCheck(a) ==
    /\ agent_pc[a] = "check"
    /\ IF remainingTickets = 0
       THEN /\ agent_pc' = [agent_pc EXCEPT ![a] = "done"]
            /\ remainingTicketsRef' = NoAgent
       ELSE /\ agent_pc' = [agent_pc EXCEPT ![a] = "sell"]
            /\ UNCHANGED remainingTicketsRef
    /\ UNCHANGED <<remainingTickets, sold, ticket_main>>
    /\ UNCHANGED not_ticket_agent

\* handleCall(); *remainingTicketsRef -= 1; println!; then either a break, taken
\* with the guard still held, or the end of the iteration, which drops the guard.
AgentSell(a, takes_break) ==
    /\ agent_pc[a] = "sell"
    /\ remainingTickets' = remainingTickets - 1
    /\ sold' = sold + 1
    /\ IF takes_break
       THEN /\ agent_pc' = [agent_pc EXCEPT ![a] = "break"]
            /\ UNCHANGED remainingTicketsRef
       ELSE /\ agent_pc' = [agent_pc EXCEPT ![a] = "lock"]
            /\ remainingTicketsRef' = NoAgent
    /\ UNCHANGED ticket_main
    /\ UNCHANGED not_ticket_agent

\* takeBreak() returns and the iteration ends.
AgentBreak(a) ==
    /\ agent_pc[a] = "break"
    /\ agent_pc' = [agent_pc EXCEPT ![a] = "lock"]
    /\ remainingTicketsRef' = NoAgent
    /\ UNCHANGED <<remainingTickets, sold, ticket_main>>
    /\ UNCHANGED not_ticket_agent

\* main has joined every handle.
EndOfDay ==
    /\ ticket_main = "join"
    /\ \A a \in Agents : agent_pc[a] = "done"
    /\ ticket_main' = "done"
    /\ UNCHANGED <<remainingTickets, remainingTicketsRef, agent_pc, sold>>
    /\ UNCHANGED not_ticket_agent

NextTicket ==
    \/ \E a \in Agents : AgentLock(a)
    \/ \E a \in Agents : AgentCheck(a)
    \/ \E a \in Agents, takes_break \in BOOLEAN : AgentSell(a, takes_break)
    \/ \E a \in Agents : AgentBreak(a)
    \/ EndOfDay

TicketSpec == InitTicket /\ [][NextTicket]_vars

\* The operating system schedules every thread that can run; sleeps end.
FairTicketSpec ==
    /\ TicketSpec
    /\ \A a \in Agents :
         WF_vars(\/ AgentLock(a)
                 \/ AgentCheck(a)
                 \/ \E takes_break \in BOOLEAN : AgentSell(a, takes_break)
                 \/ AgentBreak(a))
    /\ WF_vars(EndOfDay)

(* ----------------------------- proj-1/deet ----------------------------- *)
\* The addresses at which breakpoints are set, and the address at which a new
\* inferior is stopped after its exec, which is none of them nor next to them.
Addrs == 0 .. MaxAddr
Entry == MaxAddr + 2

\* Instruction bytes of the target: push %rbp and nop.
InstructionBytes == {85, 144}

\* Debugger::new: no inferior, no breakpoints.
InitDeet ==
    /\ BalancebeamNotStarted
    /\ ParallelMapNotStarted
    /\ TicketAgentNotStarted
    /\ LinkedListNotStarted
    /\ target_text \in [Addrs -> InstructionBytes]
    /\ breakpoints = <<>>
    /\ inferior = "None"
    /\ memory = <<>>
    /\ breakpoints_mapping = <<>>
    /\ rip = 0

\* Inferior::write_byte(addr, val): the byte at addr becomes val (the rest of its
\* word is written back as read) and the byte that was there is returned.
WriteByte(mem, addr, val) ==
    [memory |-> [mem EXCEPT ![addr] = val], orig_byte |-> mem[addr]]

\* for addr in breakpoints: write_byte(addr, 0xcc), then
\* breakpoints_mapping.insert(addr, orig_byte).
RECURSIVE InstallBreakpoints(_, _, _)
InstallBreakpoints(mem, mapping, bps) ==
    IF bps = <<>>
    THEN [memory |-> mem, mapping |-> mapping]
    ELSE LET addr == Head(bps)
             written == WriteByte(mem, addr, TRAP)
         IN InstallBreakpoints(
              written.memory,
              [k \in (DOMAIN mapping) \cup {addr} |->
                 IF k = addr THEN written.orig_byte ELSE mapping[k]],
              Tail(bps))

\* What wait() reports after ptrace::cont on an inferior with memory mem: stopped
\* by the trap at one of the addresses that hold it, or exited.
Resumed(mem, mapping) ==
    { [inferior |-> "Some", memory |-> mem, mapping |-> mapping, rip |-> a + 1] :
        a \in {b \in Addrs : mem[b] = TRAP} }
    \cup { [inferior |-> "None", memory |-> <<>>, mapping |-> <<>>, rip |-> 0] }

\* Inferior::cont(breakpoints) on a stopped inferior, with handle_status: the
\* possible states of the debugger when it returns.
Cont(mem, mapping, at, bps) ==
    LET installed == InstallBreakpoints(mem, mapping, bps)
        target_rip == at - 1
    IN IF target_rip \in DOMAIN installed.mapping
       THEN LET orig_byte == installed.mapping[target_rip]
                restored == WriteByte(installed.memory, target_rip, orig_byte)
                rearmed == WriteByte(restored.memory, target_rip, TRAP)
            IN \* ptrace::step: a trap byte at target_rip stops the inferior again at
               \* once; any other instruction runs and the inferior stops or exits.
               IF restored.memory[target_rip] = TRAP
               THEN Resumed(rearmed.memory, installed.mapping)
               ELSE Resumed(rearmed.memory, installed.mapping)
                    \cup { [inferior |-> "None", memory |-> <<>>, mapping |-> <<>>,
                            rip |-> 0] }
       ELSE Resumed(installed.memory, installed.mapping)

\* The break command: the address is appended to Debugger.breakpoints.
Break(addr) ==
    /\ Len(breakpoints) < MaxBreakpoints
    /\ breakpoints' = Append(breakpoints, addr)
    /\ UNCHANGED <<target_text, inferior, memory, breakpoints_mapping, rip>>
    /\ UNCHANGED not_deet

\* The run command: a running inferior is killed, Inferior::new starts the target
\* and installs the breakpoints in its fresh memory, create_new_inferior continues
\* it at once.
Run ==
    /\ LET fresh == InstallBreakpoints(target_text, <<>>, breakpoints)
       IN \E after \in Cont(fresh.memory, fresh.mapping, Entry, breakpoints) :
            /\ inferior' = after.inferior
            /\ memory' = after.memory
            /\ breakpoints_mapping' = after.mapping
            /\ rip' = after.rip
    /\ UNCHANGED <<target_text, breakpoints>>
    /\ UNCHANGED not_deet

\* The continue command on a stopped inferior.
Continue ==
    /\ inferior = "Some"
    /\ \E after \in Cont(memory, breakpoints_mapping, rip, breakpoints) :
         /\ inferior' = after.inferior
         /\ memory' = after.memory
         /\ breakpoints_mapping' = after.mapping
         /\ rip' = after.rip
    /\ UNCHANGED <<target_text, breakpoints>>
    /\ UNCHANGED not_deet

NextDeet ==
    \/ \E addr \in Addrs : Break(addr)
    \/ Run
    \/ Continue

DeetSpec == InitDeet /\ [][NextDeet]_vars

(* -------------------------- week3/linked_list -------------------------- *)
\* The u32 values test_list pushes.
ListValues == 1 .. MaxValue + 1

\* LinkedList::new
New == [head |-> None, size |-> 0]

get_size(self) == self.size

is_empty(self) == get_size(self) = 0

\* push_front: the new node takes the old head as its next.
push_front(self, value) ==
    [head |-> Node(value, self.head), size |-> self.size + 1]

pop_front_KeepsSize(self) ==
    IF self.head = None
    THEN [list |-> self, value |-> None]
    ELSE [list |-> [head |-> self.head.next, size |-> self.size],
          value |-> Some(self.head.value)]

\* pop_front: `self.head.take()?` returns None from an empty list; otherwise the
\* head's next becomes the head and the head's value is returned.
pop_front(self) ==
    IF self.head = None
    THEN [list |-> self, value |-> None]
    ELSE [list |-> [head |-> self.head.next, size |-> self.size - 1],
          value |-> Some(self.head.value)]

\* Clone for Node (recursive through next) and for LinkedList.
RECURSIVE NodeClone(_)
NodeClone(node) ==
    IF node = None THEN None ELSE Node(node.value, NodeClone(node.next))

clone(self) == [head |-> NodeClone(self.head), size |-> self.size]

\* PartialEq for Option<Box<Node>> (recursive through next) and for LinkedList.
RECURSIVE NodeEq(_, _)
NodeEq(a, b) ==
    IF a = None \/ b = None
    THEN a = None /\ b = None
    ELSE a.value = b.value /\ NodeEq(a.next, b.next)

eq(self, other) == self.size = other.size /\ NodeEq(self.head, other.head)

\* LinkedListIter::next on an iterator whose `current` is the given link.
IterNext(current) ==
    IF current = None
    THEN [current |-> current, item |-> None]
    ELSE [current |-> current.next, item |-> Some(current.value)]

\* The items that into_iter() of &list yields by repeated next(), up to and
\* including the first None.
RECURSIVE Yielded(_)
Yielded(current) ==
    LET step == IterNext(current)
    IN IF step.item = None
       THEN <<None>>
       ELSE <<step.item>> \o Yielded(step.current)

InitList ==
    /\ BalancebeamNotStarted
    /\ ParallelMapNotStarted
    /\ TicketAgentNotStarted
    /\ DeetNotStarted
    /\ list = New
    /\ calls = 0
    /\ pushes = 0
    /\ pops = 0
    /\ pushed = <<>>
    /\ popped = None

\* A call list.push_front(value).
PushFront(value) ==
    /\ calls < MaxCalls
    /\ list' = push_front(list, value)
    /\ calls' = calls + 1
    /\ pushes' = pushes + 1
    /\ pushed' = <<value>> \o pushed
    /\ UNCHANGED <<pops, popped>>
    /\ UNCHANGED not_linked_list

\* A call list.pop_front().
PopFront ==
    /\ calls < MaxCalls
    /\ list' = pop_front(list).list
    /\ popped' = pop_front(list).value
    /\ calls' = calls + 1
    /\ pops' = IF pop_front(list).value = None THEN pops ELSE pops + 1
    /\ pushed' = IF pushed = <<>> THEN pushed ELSE Tail(pushed)
    /\ UNCHANGED pushes
    /\ UNCHANGED not_linked_list

NextList ==
    \/ \E value \in ListValues : PushFront(value)
    \/ PopFront

ListSpec == InitList /\ [][NextList]_vars

(* ------------------------------ claims -------------------------------- *)

\* C1: connect_to_upstream attempts a connection only to an upstream whose liveness
\* bit is true at that moment, and the connection it returns is to an upstream that
\* is marked alive in the state in which the connect completes.
C1_SelectorOnlyLive ==
    /\ [](\A h \in Handlers : pc[h] = "sel_connect" => upstream_states[upstream_idx[h]])
    /\ [][\A h \in Handlers :
            upstream_conn'[h] # upstream_conn[h] =>
              /\ upstream_conn'[h] \in Upstreams
              /\ upstream_conn'[h] = upstream_idx[h]
              /\ upstream_states[upstream_conn'[h]]]_vars

\* A handler got upstream 1 after upstream 0 had been marked dead.
C1_Witness ==
    \E h \in Handlers :
      pc[h] = "read" /\ upstream_conn[h] = 1 /\ ~upstream_states[0]

\* C2: every call of connect_to_upstream that has entered its loop leaves it, with a
\* connection or with the all-upstreams-dead error.
C2_SelectorTerminates ==
    \A h \in Handlers : (pc[h] = "sel_loop") ~> (pc[h] \in {"read", "send_return"})

\* C3: a call that finds no upstream marked alive returns the error at once: it goes
\* straight to the 502 answer, changes no liveness bit and no rate entry, and leaves
\* the Mutex free; from the 502 answer the handler only terminates, so no connect is
\* attempted for that call.
C3_AllDeadFailsImmediately ==
    /\ [][\A h \in Handlers :
            (pc[h] = "connect" /\ pc'[h] # "connect" /\ ~AnyAlive) =>
              /\ pc'[h] = "send_return"
              /\ response'[h] = BAD_GATEWAY
              /\ upstream_states' = upstream_states
              /\ client_requests_map' = client_requests_map
              /\ upstream_conn' = upstream_conn
              /\ mutex' = NoOwner]_vars
    /\ [][\A h \in Handlers :
            pc[h] \in {"send_return", "warn_return", "done"} =>
              /\ pc'[h] \in {"send_return", "warn_return", "done"}
              /\ upstream_conn'[h] = upstream_conn[h]]_vars

\* A call has failed while every upstream is marked dead.
C3_Witness ==
    \E h \in Handlers :
      pc[h] = "send_return" /\ response[h] = BAD_GATEWAY /\ ~AnyAlive

InWindow(e) == e.at - e.when < WindowSecs

AllowedInWindow(ip, when, upto) ==
    Cardinality({j \in 1 .. upto :
                   /\ rate_log[j].ip = ip
                   /\ rate_log[j].when = when
                   /\ rate_log[j].allowed
                   /\ InWindow(rate_log[j])})

\* C5: with a limit L > 0, a request decided within 60 s of the window start of its
\* IP is allowed exactly when fewer than L requests of that IP were allowed in that
\* window before it: the first L are allowed, every further one is denied, and a
\* handler answers 429 exactly for a request that was just denied.
C5_FirstLAllowedRestDenied ==
    max_requests_per_minute > 0 =>
      /\ \A k \in DOMAIN rate_log :
           InWindow(rate_log[k]) =>
             (rate_log[k].allowed <=>
                AllowedInWindow(rate_log[k].ip, rate_log[k].when, k - 1)
                  < max_requests_per_minute)
      /\ \A h \in Handlers :
           response[h] = TOO_MANY_REQUESTS <=>
             /\ pc[h] = "send_continue"
             /\ mutex = h
             /\ rate_log # <<>>
             /\ ~rate_log[Len(rate_log)].allowed
             /\ rate_log[Len(rate_log)].ip = client_ip[h]

\* Request L+1 of an IP was denied inside the window.
C5_Witness ==
    \E k \in DOMAIN rate_log :
      /\ ~rate_log[k].allowed
      /\ InWindow(rate_log[k])
      /\ k = max_requests_per_minute + 1

\* C6: a request arriving 60 s or more after the recorded window_start is allowed
\* and leaves the entry (window_start = time of this request, count = 1).
C6_WindowRestarts ==
    [][\A h \in Handlers :
         (/\ pc[h] = "rate"
          /\ pc'[h] # "rate"
          /\ max_requests_per_minute > 0
          /\ client_ip[h] \in DOMAIN client_requests_map
          /\ now - client_requests_map[client_ip[h]].when >= WindowSecs) =>
           /\ pc'[h] = "forward"
           /\ client_requests_map'[client_ip[h]] = [when |-> now, count |-> 1]]_vars

\* C7: with the limit 0 no request is answered 429 and the rate map stays empty.
C7_UnlimitedWhenZero ==
    max_requests_per_minute = 0 =>
      /\ client_requests_map = <<>>
      /\ \A h \in Handlers : response[h] # TOO_MANY_REQUESTS
      /\ \A k \in DOMAIN rate_log : rate_log[k].allowed

\* With the limit 0, every request the clients sent has passed the rate step.
C7_Witness ==
    /\ max_requests_per_minute = 0
    /\ requests_read = MaxRequests
    /\ \E h \in Handlers : pc[h] = "forward"

\* C8: for every IP the number of requests allowed within the 60 s after its window
\* start never exceeds L, and while that window is open the stored count is exactly
\* that number: no allowed request is lost or counted twice, whichever handlers
\* served them.
C8_AtMostLPerWindow ==
    max_requests_per_minute > 0 =>
      \A ip \in DOMAIN client_requests_map :
        LET e == client_requests_map[ip]
            n == AllowedInWindow(ip, e.when, Len(rate_log))
        IN  /\ n <= max_requests_per_minute
            /\ (now - e.when < WindowSecs => e.count = n)

\* Two handlers serve the same IP at once: one was allowed, the other denied.
C8_Witness ==
    \E h1, h2 \in Handlers :
      /\ h1 # h2
      /\ client_ip[h1] = client_ip[h2]
      /\ pc[h1] = "forward"
      /\ pc[h2] = "send_continue"
      /\ response[h2] = TOO_MANY_REQUESTS

\* C9: the liveness bit a probe writes is true exactly when the connect, the write
\* and the read all succeeded and the status is 200.
C9_LivenessIffAllSucceed ==
    [][(hc_pc = "write" /\ hc_pc' # "write") =>
         upstream_states'[hc_idx] =
           (probe.connect /\ probe.write /\ probe.read /\ probe.status = OK)]_vars

\* C10: the checker leaves its sleep only when the interval has elapsed and starts
\* at upstream 0; each probe is followed by the write of that upstream's bit alone,
\* then by the probe of the next upstream whatever the verdict was; the cycle ends,
\* and the next sleep starts, only after the last upstream.
C10_CycleProbesAllInOrder ==
    [][/\ (hc_pc = "sleep" /\ hc_pc' # "sleep") =>
            (now >= hc_wake /\ hc_pc' = "probe" /\ hc_idx' = 0)
       /\ (hc_pc = "probe" /\ hc_pc' # "probe") =>
            (hc_pc' = "write" /\ hc_idx' = hc_idx /\ upstream_states' = upstream_states)
       /\ (hc_pc = "write" /\ hc_pc' # "write") =>
            /\ \A i \in Upstreams \ {hc_idx} : upstream_states'[i] = upstream_states[i]
            /\ IF hc_idx + 1 < NumUpstreams
               THEN hc_pc' = "probe" /\ hc_idx' = hc_idx + 1
               ELSE /\ hc_pc' = "sleep"
                    /\ hc_wake' = now + active_health_check_interval]_vars

\* The probe of upstream 0 failed and the checker goes on to probe upstream 1.
C10_Witness ==
    /\ hc_pc = "probe"
    /\ hc_idx = 1
    /\ ~upstream_states[0]
    /\ \A h \in Handlers : pc[h] = "idle"

\* C11: at most one task is inside a critical section on the ProxyState at a time.  A
\* handler inside connect_to_upstream's loop owns the Mutex, so no two handlers are
\* there together; and while a handler owns the Mutex the health checker enters
\* neither of its sections, no other handler enters connect_to_upstream or the rate
\* step, and the liveness vector and the rate map change only in the owner's steps.
C11_OneTaskInCriticalSection ==
    /\ [](\A h \in Handlers : pc[h] \in {"sel_loop", "sel_connect"} => mutex = h)
    /\ [][\A h \in Handlers :
            mutex = h =>
              /\ hc_pc \in {"init", "write"} => hc_pc' = hc_pc
              /\ \A g \in Handlers \ {h} :
                   pc[g] \in {"connect", "rate"} => pc'[g] = pc[g]
              /\ (\/ upstream_states' # upstream_states
                  \/ client_requests_map' # client_requests_map
                  \/ max_requests_per_minute' # max_requests_per_minute) =>
                   pc'[h] # pc[h]]_vars

\* A handler owns the Mutex in its connect while the checker has a verdict to write
\* and another handler is about to call connect_to_upstream.
C11_Witness ==
    \E h, g \in Handlers :
      /\ mutex = h
      /\ pc[h] = "sel_connect"
      /\ pc[g] = "connect"
      /\ hc_pc = "write"

\* C12: a task owns the Mutex only inside connect_to_upstream; whatever a handler
\* writes to its client, the 429 answer included, is written with the Mutex free.
C12_NoIoUnderLock ==
    \A h \in Handlers : mutex = h => pc[h] \in {"sel_loop", "sel_connect"}

\* C13: a handler whose connect_to_upstream failed writes one 502 and terminates.  The
\* failing call hands the 502 to send_response and touches neither the rate map nor a
\* request; without a connection a handler is never in the request loop, holds no
\* request and has forwarded nothing; after the write of the 502 no response is
\* pending any more and the handler only terminates.
C13_SelectorFailureAnswers502 ==
    /\ [](\A h \in Handlers :
            upstream_conn[h] = NoConn =>
              /\ pc[h] \in {"idle", "connect", "sel_loop", "sel_connect",
                            "send_return", "warn_return", "done"}
              /\ request[h] = NoRequest
              /\ upstream_sent[h] = <<>>
              /\ pc[h] = "send_return" => response[h] = BAD_GATEWAY
              /\ pc[h] \in {"warn_return", "done"} => response[h] = NoResponse)
    /\ [][\A h \in Handlers :
            (upstream_conn[h] = NoConn /\ pc'[h] # pc[h]) =>
              /\ pc[h] = "connect" =>
                   (pc'[h] = "send_return" => response'[h] = BAD_GATEWAY)
              /\ pc[h] = "send_return" => pc'[h] \in {"warn_return", "done"}
              /\ pc[h] = "warn_return" => pc'[h] = "done"
              /\ pc[h] # "sel_connect" =>
                   /\ client_requests_map' = client_requests_map
                   /\ requests_read' = requests_read
                   /\ upstream_conn'[h] = NoConn]_vars

\* A handler has terminated after its connect_to_upstream found every upstream dead.
C13_Witness ==
    \E h \in Handlers :
      /\ pc[h] = "done"
      /\ upstream_conn[h] = NoConn
      /\ ~AnyAlive

ProtocolErrors ==
    {"IncompleteRequest", "MalformedRequest", "InvalidContentLength",
     "ContentLengthMismatch", "RequestBodyTooLarge"}

\* C14: a read that ends in a protocol error is answered 413 when the body is too
\* large and 400 otherwise; that step and the write of the answer leave the rate map,
\* the upstream connection and what was forwarded as they are, and after the write
\* the handler reads the next request of the same client.
C14_ProtocolErrorAnswered ==
    [][\A h \in Handlers :
         pc'[h] # pc[h] =>
           /\ (pc[h] = "read" /\ request'[h].result \in ProtocolErrors) =>
                /\ pc'[h] = "send_continue"
                /\ response'[h] = IF request'[h].result = "RequestBodyTooLarge"
                                   THEN PAYLOAD_TOO_LARGE ELSE BAD_REQUEST
                /\ client_requests_map' = client_requests_map
                /\ upstream_sent' = upstream_sent
                /\ upstream_conn' = upstream_conn
           /\ (pc[h] = "send_continue" /\ request[h].result \in ProtocolErrors) =>
                /\ response[h] \in {BAD_REQUEST, PAYLOAD_TOO_LARGE}
                /\ pc'[h] \in {"read", "warn_continue"}
                /\ client_requests_map' = client_requests_map
                /\ upstream_sent' = upstream_sent
                /\ upstream_conn' = upstream_conn
           /\ pc[h] = "warn_continue" =>
                /\ pc'[h] = "read"
                /\ client_requests_map' = client_requests_map
                /\ upstream_sent' = upstream_sent
                /\ upstream_conn' = upstream_conn]_vars

\* An oversized request is being answered 413 while the rate map holds a count.
C14_Witness ==
    \E h \in Handlers :
      /\ pc[h] = "send_continue"
      /\ request[h].result = "RequestBodyTooLarge"
      /\ response[h] = PAYLOAD_TOO_LARGE
      /\ client_requests_map # <<>>

\* C15: a read that ends with the clean end of the stream or with a connection error
\* terminates the handler at once: no response is handed to send_response, nothing is
\* forwarded and nothing else changes.  A read after which the handler goes on
\* carries a request or a protocol error, so neither of the two is ever answered 400
\* or 503; a terminated handler stays terminated.
C15_EofTerminatesSilently ==
    [][\A h \in Handlers :
         /\ (pc[h] = "read" /\ pc'[h] # "read") =>
              /\ response'[h] # SERVICE_UNAVAILABLE
              /\ IF pc'[h] = "done"
                 THEN /\ response' = response
                      /\ response[h] = NoResponse
                      /\ request' = request
                      /\ requests_read' = requests_read
                      /\ upstream_sent' = upstream_sent
                      /\ client_requests_map' = client_requests_map
                 ELSE request'[h].result \in ProtocolErrors \cup {"Ok"}
         /\ pc[h] = "done" =>
              /\ pc'[h] = "done"
              /\ response'[h] = NoResponse
              /\ upstream_sent'[h] = upstream_sent[h]]_vars

\* Every client has hung up before sending a request.
C15_Witness ==
    /\ \A h \in Handlers : pc[h] = "done"
    /\ requests_read = 0

\* C16: a denied request is answered 429 and nothing else: the step that denies it
\* hands the 429 to send_response and leaves the rate map (so the stored count) and
\* what was forwarded as they are; the write of the 429 drops the request without
\* forwarding it, and the handler then reads the next request on the same
\* connections.
C16_DeniedNotForwarded ==
    [][\A h \in Handlers :
         pc'[h] # pc[h] =>
           /\ (pc[h] = "rate" /\ pc'[h] # "forward") =>
                /\ pc'[h] = "send_continue"
                /\ response'[h] = TOO_MANY_REQUESTS
                /\ client_requests_map' = client_requests_map
                /\ upstream_sent' = upstream_sent
                /\ upstream_conn' = upstream_conn
           /\ (pc[h] = "send_continue" /\ response[h] = TOO_MANY_REQUESTS) =>
                /\ pc'[h] \in {"read", "warn_continue"}
                /\ request'[h] = NoRequest
                /\ client_requests_map' = client_requests_map
                /\ upstream_sent' = upstream_sent
                /\ upstream_conn' = upstream_conn
           /\ pc[h] = "warn_continue" =>
                /\ pc'[h] = "read"
                /\ request'[h] = NoRequest
                /\ client_requests_map' = client_requests_map
                /\ upstream_sent' = upstream_sent
                /\ upstream_conn' = upstream_conn]_vars

\* One handler is answering 429 while the request that used up the limit is with
\* the upstream.
C16_Witness ==
    \E h, g \in Handlers :
      /\ pc[h] = "send_continue"
      /\ response[h] = TOO_MANY_REQUESTS
      /\ request[h].result = "Ok"
      /\ pc[g] = "read_response"
      /\ client_requests_map[client_ip[h]].count = max_requests_per_minute

\* C17: when the write of the request to the upstream or the read of its response
\* fails, the handler hands one 502 to send_response and terminates: from the failed
\* step on it forwards nothing more, reads no request, keeps its upstream connection
\* (no second call of connect_to_upstream) and, the 502 written, has no response
\* pending.
C17_UpstreamFailureAnswers502 ==
    [][\A h \in Handlers :
         pc'[h] # pc[h] =>
           /\ (pc[h] = "forward" /\ pc'[h] # "read_response") =>
                /\ pc'[h] = "send_return"
                /\ response'[h] = BAD_GATEWAY
                /\ upstream_sent' = upstream_sent
                /\ upstream_conn' = upstream_conn
           /\ (pc[h] = "read_response" /\ pc'[h] # "send_continue") =>
                /\ pc'[h] = "send_return"
                /\ response'[h] = BAD_GATEWAY
                /\ upstream_sent'[h] = <<>>
                /\ upstream_conn' = upstream_conn
           /\ pc[h] \in {"send_return", "warn_return"} =>
                /\ pc[h] = "send_return" => response[h] = BAD_GATEWAY
                /\ pc'[h] \in {"warn_return", "done"}
                /\ pc'[h] # "done" => pc[h] = "send_return"
                /\ response'[h] = NoResponse
                /\ upstream_sent' = upstream_sent
                /\ upstream_conn' = upstream_conn
                /\ requests_read' = requests_read
           /\ pc[h] # "done"]_vars

\* A handler answers 502 for a request it could not get through to its upstream.
C17_Witness ==
    \E h \in Handlers :
      /\ pc[h] = "send_return"
      /\ response[h] = BAD_GATEWAY
      /\ request[h].result = "Ok"
      /\ upstream_conn[h] # NoConn

\* C18: a handler whose write of a response to its client has failed terminates: its
\* next step is its last one, so it reads no further request and forwards nothing.
C18_WriteFailureTerminates ==
    [][\A h \in Handlers :
         (pc[h] \in {"warn_continue", "warn_return"} /\ pc'[h] # pc[h]) =>
           pc'[h] = "done"]_vars

\* C19: a handler gets its upstream connection from one call of connect_to_upstream,
\* made before it reads its first request, and keeps it for the whole session: it is
\* in the request loop only with a connection, the connection is set once (by the
\* connect that ends the call) and never changes afterwards, the handler never
\* enters connect_to_upstream again, and every request it forwards is written to
\* that connection, whatever the liveness vector says by then.
C19_OneUpstreamPerSession ==
    /\ [](\A h \in Handlers :
            /\ pc[h] \in {"read", "rate", "forward", "read_response",
                          "send_continue", "warn_continue"} =>
                 upstream_conn[h] \in Upstreams
            /\ \A k \in DOMAIN upstream_sent[h] :
                 upstream_sent[h][k].to = upstream_conn[h])
    /\ [][\A h \in Handlers :
            /\ upstream_conn'[h] # upstream_conn[h] =>
                 /\ upstream_conn[h] = NoConn
                 /\ pc[h] = "sel_connect"
                 /\ pc'[h] = "read"
            /\ upstream_conn[h] # NoConn =>
                 pc'[h] \notin {"idle", "connect", "sel_loop", "sel_connect"}
            /\ (pc[h] = "forward" /\ pc'[h] = "read_response") =>
                 /\ Len(upstream_sent'[h]) = Len(upstream_sent[h]) + 1
                 /\ upstream_sent'[h][Len(upstream_sent'[h])].to = upstream_conn[h]]_vars

\* A session's last request has been forwarded over its connection after the health
\* checker marked that upstream dead.
C19_Witness ==
    \E h \in Handlers :
      /\ pc[h] = "read_response"
      /\ requests_read = MaxRequests
      /\ upstream_sent[h] # <<>>
      /\ ~upstream_states[upstream_conn[h]]
      /\ hc_pc = "sleep"

\* C20: every request written to an upstream carries an x-forwarded-for value that
\* ends with the IP of the client it came from: the value the request arrived with,
\* in its order, followed by that IP, and the IP alone when it arrived without one.
\* Only a request that was read whole and passed the rate step is written; one
\* answered 400, 413 or 429 is dropped without reaching the upstream.
C20_ForwardedForAppended ==
    /\ [](\A h \in Handlers :
            /\ \A k \in DOMAIN upstream_sent[h] :
                 LET value == upstream_sent[h][k].xff
                 IN  value # <<>> /\ value[Len(value)] = client_ip[h]
            /\ response[h] \in {BAD_REQUEST, PAYLOAD_TOO_LARGE, TOO_MANY_REQUESTS} =>
                 (pc[h] = "send_continue" /\ upstream_sent[h] = <<>>))
    /\ [][\A h \in Handlers :
            /\ (upstream_sent'[h] # upstream_sent[h] /\ upstream_sent'[h] # <<>>) =>
                 /\ pc[h] = "forward"
                 /\ request[h].result = "Ok"
                 /\ upstream_sent'[h] =
                      Append(upstream_sent[h],
                             [to |-> upstream_conn[h],
                              xff |-> request[h].xff \o <<client_ip[h]>>])
            /\ (/\ response[h] \in {BAD_REQUEST, PAYLOAD_TOO_LARGE, TOO_MANY_REQUESTS}
                /\ pc'[h] # pc[h]) =>
                 /\ upstream_sent' = upstream_sent
                 /\ request'[h] = NoRequest
                 /\ pc'[h] # "forward"]_vars

\* One upstream holds a request that arrived with a chain of two addresses, another
\* one that arrived without the header.
C20_Witness ==
    \E h, g \in Handlers :
      /\ upstream_sent[h] # <<>>
      /\ upstream_sent[h][1].xff = <<"192.0.2.1", "192.0.2.2", client_ip[h]>>
      /\ upstream_sent[g] # <<>>
      /\ upstream_sent[g][1].xff = <<client_ip[g]>>

\* C21: the health checker always gets to write the verdict of a probe, so an
\* upstream whose probe was answered 200 is marked alive after it.
C21_RevivableIsRevived ==
    \A i \in Upstreams :
      (hc_pc = "write" /\ hc_idx = i /\ ProbeVerdict(probe)) ~> upstream_states[i]

\* C22: an upstream that is offline (the probe's connect or read fails) is marked
\* dead by the write that follows its probe; while a call of connect_to_upstream
\* runs no dead upstream is marked alive, and the connection a call returns is to an
\* upstream marked alive, so a call that starts after the cycle, before the checker
\* revives the upstream, returns a connection to another upstream only.
C22_OnlySurvivorGetsTraffic ==
    [][/\ (hc_pc = "write" /\ hc_pc' # "write" /\ ~(probe.connect /\ probe.read)) =>
            ~upstream_states'[hc_idx]
       /\ \A h \in Handlers :
            /\ pc[h] \in {"sel_loop", "sel_connect"} =>
                 \A i \in Upstreams : ~upstream_states[i] => ~upstream_states'[i]
            /\ (pc[h] = "sel_loop" /\ pc'[h] = "sel_connect") =>
                 upstream_states[upstream_idx'[h]]
            /\ upstream_conn'[h] # upstream_conn[h] =>
                 /\ pc[h] = "sel_connect"
                 /\ upstream_conn'[h] = upstream_idx[h]
                 /\ upstream_states[upstream_conn'[h]]]_vars

\* The first client's call of connect_to_upstream has started, and not drawn yet,
\* after a cycle of the checker marked upstream 1 dead and upstream 0 alive.
C22_Witness ==
    /\ hc_pc = "sleep"
    /\ hc_wake > active_health_check_interval
    /\ upstream_states[0]
    /\ ~upstream_states[1]
    /\ \E h \in Handlers :
         /\ pc[h] = "sel_loop"
         /\ upstream_idx[h] = 0
         /\ mutex = h
         /\ \A g \in Handlers \ {h} : pc[g] = "idle"

\* C23: every accepted client gets past connect_to_upstream: its handler does not
\* wait for the Mutex or stay in the loop forever, it comes to hold a connection
\* (and reads the client's request) or answers 502.
C23_EveryClientAnswered ==
    \A h \in Handlers :
      (pc[h] = "connect") ~> (pc[h] \notin {"connect", "sel_loop", "sel_connect"})

\* C24: a handler serves one request at a time.  While it waits for a request it
\* holds none, has no response pending and nothing with its upstream; a request it
\* has read goes through the rate step, the forward and the read of the upstream's
\* response in this order, each of which either goes on or builds the one response
\* of this request; a response is pending exactly at send_response, whose write ends
\* the request, and the handler reads the next request only from there.
C24_OneRequestAtATime ==
    /\ [](\A h \in Handlers :
            /\ pc[h] = "read" =>
                 /\ request[h] = NoRequest
                 /\ response[h] = NoResponse
                 /\ upstream_sent[h] = <<>>
            /\ response[h] # NoResponse <=> pc[h] \in {"send_continue", "send_return"}
            /\ Len(upstream_sent[h]) <= 1)
    /\ [][\A h \in Handlers :
            pc'[h] # pc[h] =>
              /\ pc[h] = "read" =>
                   /\ pc'[h] \in {"rate", "send_continue", "done"}
                   /\ pc'[h] # "done" <=> requests_read' = requests_read + 1
              /\ pc[h] = "rate" => pc'[h] \in {"forward", "send_continue"}
              /\ pc[h] = "forward" => pc'[h] \in {"read_response", "send_return"}
              /\ pc[h] = "read_response" => pc'[h] \in {"send_continue", "send_return"}
              /\ pc[h] \in {"send_continue", "send_return"} =>
                   /\ response'[h] = NoResponse
                   /\ request'[h] = NoRequest
              /\ pc'[h] = "read" =>
                   /\ pc[h] \in {"sel_connect", "send_continue", "warn_continue"}
                   /\ requests_read' = requests_read]_vars

\* Two connections are served at once: the request of one is about to be forwarded
\* while the other waits for its upstream's response.
C24_Witness ==
    \E h, g \in Handlers :
      /\ pc[h] = "forward"
      /\ pc[g] = "read_response"
      /\ requests_read = MaxRequests

\* C25: the checker holds a probe's outcome only until the write that follows that
\* probe: the write stores the verdict in the bit of the upstream just probed and
\* nothing is kept for later, the next probe starts only after it, and a draw of
\* connect_to_upstream reads the bits as they are then, those written earlier in
\* the running cycle included.
C25_ResultWrittenAfterEachProbe ==
    /\ [](hc_pc # "write" => probe = NoProbe)
    /\ [][/\ (hc_pc = "probe" /\ hc_pc' # "probe") =>
               (hc_pc' = "write" /\ hc_idx' = hc_idx)
          /\ (hc_pc = "write" /\ hc_pc' # "write") =>
               /\ upstream_states'[hc_idx] = ProbeVerdict(probe)
               /\ probe' = NoProbe
               /\ hc_pc' = "probe" => hc_idx' = hc_idx + 1
          /\ \A h \in Handlers :
               (pc[h] = "sel_loop" /\ upstream_idx'[h] # upstream_idx[h]) =>
                 (pc'[h] = "sel_connect" <=> upstream_states[upstream_idx'[h]])]_vars

\* The checker has marked upstream 0 dead and is probing upstream 1 when the first
\* client's call of connect_to_upstream is about to start.
C25_Witness ==
    /\ hc_pc = "probe"
    /\ hc_idx = 1
    /\ ~upstream_states[0]
    /\ mutex = NoOwner
    /\ \E h \in Handlers :
         /\ pc[h] = "connect"
         /\ \A g \in Handlers \ {h} : pc[g] = "idle"

\* C26: a connect attempt of connect_to_upstream that fails sets the bit of the
\* drawn upstream to false and goes back to the draw, leaving every other bit, the
\* address list and the rate map as they were; an attempt that succeeds changes no
\* bit, no address and no rate entry.
C26_ConnectFailureMarksOnlyThatUpstream ==
    [][\A h \in Handlers :
         (pc[h] = "sel_connect" /\ pc'[h] # "sel_connect") =>
           /\ upstream_addresses' = upstream_addresses
           /\ client_requests_map' = client_requests_map
           /\ \/ /\ pc'[h] = "sel_loop"
                 /\ upstream_states' =
                      [upstream_states EXCEPT ![upstream_idx[h]] = FALSE]
              \/ /\ pc'[h] = "read"
                 /\ upstream_conn'[h] = upstream_idx[h]
                 /\ upstream_states' = upstream_states]_vars

\* A connect attempt to upstream 0 has just failed while upstream 1 is still
\* marked alive: the handler is back at the draw with only bit 0 cleared.
C26_Witness ==
    \E h \in Handlers :
      /\ pc[h] = "sel_loop"
      /\ mutex = h
      /\ upstream_idx[h] = 0
      /\ ~upstream_states[0]
      /\ upstream_states[1]
      /\ hc_pc = "init"
      /\ \A g \in Handlers \ {h} : pc[g] = "idle"

\* C27: a liveness bit changes only in the health checker's write, to the verdict
\* of the probe just made, or in a failed connect attempt of connect_to_upstream,
\* to false; a handler whose forward write or response read fails answers 502 and
\* changes no bit; a bit goes from false to true only in the health checker's
\* write of a passing probe.
C27_OnlyCheckerAndSelectorWriteBits ==
    [][/\ upstream_states' # upstream_states =>
            \/ /\ hc_pc = "write"
               /\ hc_pc' # "write"
               /\ upstream_states' =
                    [upstream_states EXCEPT ![hc_idx] = ProbeVerdict(probe)]
            \/ \E h \in Handlers :
                 /\ pc[h] = "sel_connect"
                 /\ pc'[h] = "sel_loop"
                 /\ upstream_states' =
                      [upstream_states EXCEPT ![upstream_idx[h]] = FALSE]
       /\ \A h \in Handlers :
            (pc[h] \in {"forward", "read_response"} /\ pc'[h] = "send_return") =>
              (response'[h] = BAD_GATEWAY /\ upstream_states' = upstream_states)
       /\ \A i \in Upstreams :
            (~upstream_states[i] /\ upstream_states'[i]) =>
              (hc_pc = "write" /\ hc_idx = i /\ ProbeVerdict(probe))]_vars

\* A handler connected to an upstream has met a failure after the connect and is
\* about to answer 502, while that upstream is still marked alive and the checker
\* has written nothing yet.
C27_Witness ==
    \E h \in Handlers :
      /\ pc[h] = "send_return"
      /\ response[h] = BAD_GATEWAY
      /\ upstream_conn[h] # NoConn
      /\ upstream_states[upstream_conn[h]]
      /\ hc_pc = "probe"
      /\ hc_idx = 0

\* C28: the proxy starts with every configured upstream marked alive; in every
\* state the liveness table has one entry per configured address, at the same
\* index, and the address list is the configured one; the checker makes no probe
\* before one interval has passed since the start, and until then a bit changes
\* only when a connect attempt of connect_to_upstream fails, to false.
C28_TableMatchesConfiguration ==
    /\ \A i \in Upstreams : upstream_states[i]
    /\ [](/\ upstream_addresses = ConfiguredUpstreams
          /\ DOMAIN upstream_states = DOMAIN upstream_addresses
          /\ upstream_states \in [Upstreams -> BOOLEAN]
          /\ now < active_health_check_interval =>
               (hc_pc \in {"init", "sleep"} /\ probe = NoProbe))
    /\ [][/\ upstream_addresses' = upstream_addresses
          /\ (now < active_health_check_interval
                /\ upstream_states' # upstream_states) =>
               \E h \in Handlers :
                 /\ pc[h] = "sel_connect"
                 /\ upstream_states' =
                      [upstream_states EXCEPT ![upstream_idx[h]] = FALSE]]_vars

\* Before the first interval has passed the checker is asleep, and a failed
\* connect attempt has already marked one upstream dead while the other is still
\* marked alive as at startup.
C28_Witness ==
    /\ now < active_health_check_interval
    /\ hc_pc = "sleep"
    /\ \E i, j \in Upstreams : ~upstream_states[i] /\ upstream_states[j]

\* C29: every address that has an entry in the rate map keeps one; the map is
\* changed only by a handler's rate-limiting step under a limit > 0, which adds or
\* rewrites the entry of that handler's client and no other; a client's first
\* request under a limit creates its entry; no step of the health checker or of
\* connect_to_upstream changes the map.
C29_RateEntriesOnlyGrow ==
    [][/\ DOMAIN client_requests_map \subseteq DOMAIN client_requests_map'
       /\ client_requests_map' # client_requests_map =>
            \E h \in Handlers :
              /\ pc[h] = "rate"
              /\ pc'[h] = "forward"
              /\ max_requests_per_minute > 0
              /\ DOMAIN client_requests_map' =
                   DOMAIN client_requests_map \cup {client_ip[h]}
              /\ \A k \in DOMAIN client_requests_map \ {client_ip[h]} :
                   client_requests_map'[k] = client_requests_map[k]
       /\ \A h \in Handlers :
            (/\ pc[h] = "rate"
             /\ pc'[h] # "rate"
             /\ max_requests_per_minute > 0
             /\ client_ip[h] \notin DOMAIN client_requests_map) =>
              /\ client_ip[h] \in DOMAIN client_requests_map'
              /\ client_requests_map'[client_ip[h]].count = 1
       /\ (\/ hc_pc' # hc_pc
           \/ hc_idx' # hc_idx
           \/ upstream_states' # upstream_states
           \/ \E h \in Handlers :
                pc[h] \in {"connect", "sel_loop", "sel_connect"} /\ pc'[h] # pc[h]) =>
            client_requests_map' = client_requests_map]_vars

\* A second address has got its entry, the entry of the client that left earlier
\* is still there as it was, and meanwhile the checker has finished a cycle and an
\* upstream has been marked dead.
C29_Witness ==
    /\ DOMAIN client_requests_map = ClientIps
    /\ client_requests_map["10.0.0.2"] = [when |-> 0, count |-> 1]
    /\ hc_pc = "sleep"
    /\ \E i \in Upstreams : ~upstream_states[i]

\* C30: under a limit L > 0 every entry of the rate map holds a count of at least
\* 1 and at most L, in every state, whatever the order in which the handlers
\* take their steps.
C30_StoredCountWithinLimit ==
    max_requests_per_minute > 0 =>
      \A ip \in DOMAIN client_requests_map :
        /\ client_requests_map[ip].count >= 1
        /\ client_requests_map[ip].count <= max_requests_per_minute

\* A client has been counted again after its window had run out: its second
\* request was let through, the window start kept is older than the window
\* length, and the count stored stands at the limit.
C30_Witness ==
    /\ max_requests_per_minute > 0
    /\ Len(rate_log) >= 2
    /\ \E ip \in DOMAIN client_requests_map :
         /\ client_requests_map[ip].count = max_requests_per_minute
         /\ Elapsed(client_requests_map[ip].when) >= WindowSecs
         /\ \A i \in 1 .. Len(rate_log) : rate_log[i].ip = ip /\ rate_log[i].allowed

\* C31: from the moment a call of connect_to_upstream has the lock until it
\* returns, through all its draws and connect attempts, the call owns the lock
\* and Proxy State is changed by nothing but that call's own marking of a failed
\* upstream; the health checker's accesses to the state, the rate-limit checks of
\* the other handlers and the other calls of connect_to_upstream do not advance.
C31_SelectorCallExcludesOthers ==
    /\ [](\A h \in Handlers : pc[h] \in {"sel_loop", "sel_connect"} => mutex = h)
    /\ [][\A h \in Handlers :
            pc[h] \in {"sel_loop", "sel_connect"} =>
              /\ proxy_state' # proxy_state =>
                   (pc[h] = "sel_connect" /\ pc'[h] = "sel_loop")
              /\ hc_pc \in {"init", "write"} => hc_pc' = hc_pc
              /\ \A g \in Handlers \ {h} :
                   pc[g] \in {"connect", "rate"} => pc'[g] = pc[g]]_vars

\* A call of connect_to_upstream is in a connect attempt while the health checker
\* has a result to write and another handler has a request to rate-check.
C31_Witness ==
    \E h, g \in Handlers :
      /\ pc[h] = "sel_connect"
      /\ pc[g] = "rate"
      /\ hc_pc = "write"

\* C32: output_vec always has the length of input_vec and each of its elements is
\* either still the default or f of the input element at the same index; when
\* parallel_map returns with num_threads >= 1, every element i is f of input
\* element i, whatever the order in which the workers ran and their results
\* arrived.
C32_ParallelMapIsMap ==
    /\ Len(output_vec) = Len(input_vec)
    /\ \A i \in 1 .. Len(output_vec) : output_vec[i] \in {Default, f(input_vec[i])}
    /\ (pm_pc = "done" /\ num_threads >= 1) =>
         \A i \in 1 .. Len(input_vec) : output_vec[i] = f(input_vec[i])

\* parallel_map has returned the squares of MaxLen different numbers, none of
\* them the default, computed by two workers that each took one element.
C32_Witness ==
    /\ pm_pc = "done"
    /\ num_threads >= 2
    /\ Len(input_vec) = MaxLen
    /\ \A i, j \in 1 .. MaxLen : i # j => input_vec[i] # input_vec[j]
    /\ \A i \in 1 .. MaxLen : output_vec[i] # Default
    /\ next_elem[1] # <<>>
    /\ next_elem[2] # <<>>

\* C33: parallel_map returns, for every input and every num_threads >= 0: once
\* `sender` is dropped every worker leaves its receive loop and is joined, and
\* once `sender_re` is dropped the collecting loop ends.
C33_ParallelMapTerminates ==
    /\ <>(pm_pc = "done")
    /\ (pm_pc = "join") ~>
         (joined = num_threads /\ \A w \in Workers : worker_pc[w] = "exit")
    /\ (pm_pc = "collect") ~> (pm_pc = "done" /\ receiver_re = <<>>)

\* parallel_map has returned after joining MaxThreads workers, one of which left
\* its loop without ever having received an element.
C33_Witness ==
    /\ pm_pc = "done"
    /\ num_threads = MaxThreads
    /\ joined = num_threads
    /\ Len(input_vec) >= 1
    /\ \E w \in Workers : worker_pc[w] = "exit" /\ next_elem[w] = <<>>

\* C34: whatever the order in which the agents run, the counter of remaining
\* tickets stays between 0 and its initial value, every change of it is a
\* decrement by one that sells one ticket, the tickets sold and the tickets
\* remaining always add up to the initial number, all of them are sold in the
\* end, and once the counter is 0 every agent goes home.
C34_AllTicketsSoldOnce ==
    /\ [](/\ remainingTickets >= 0
          /\ remainingTickets <= InitialTickets
          /\ sold + remainingTickets = InitialTickets)
    /\ [][remainingTickets' # remainingTickets =>
            (remainingTickets' = remainingTickets - 1 /\ sold' = sold + 1)]_vars
    /\ <>[](sold = InitialTickets)
    /\ (remainingTickets = 0) ~> (\A a \in Agents : agent_pc[a] = "done")

\* End of the business day: every ticket has been sold, every agent has gone
\* home and main has joined them all.
C34_Witness ==
    /\ ticket_main = "done"
    /\ sold = InitialTickets
    /\ remainingTickets = 0
    /\ \A a \in Agents : agent_pc[a] = "done"

\* C35: while an inferior exists, breakpoints_mapping holds, for every address in
\* it, the byte the target program has at that address, which is not the trap
\* byte, after Inferior::new and after every cont.
C35_MappingHoldsOriginalByte ==
    inferior = "Some" =>
      \A addr \in DOMAIN breakpoints_mapping :
        /\ breakpoints_mapping[addr] = target_text[addr]
        /\ breakpoints_mapping[addr] # TRAP

\* C36: after any sequence of push_front and pop_front calls on a new list,
\* get_size is the number of pushes minus the number of pops that returned a
\* value, is_empty holds exactly when that is 0, iterating yields the values
\* pushed and not yet popped from the latest to the oldest and then None, and a
\* clone compares equal to the list; a pop_front returns the latest value pushed
\* and not yet popped, or None from an empty list, which it leaves unchanged.
C36_ListIsStack ==
    /\ [](/\ get_size(list) = pushes - pops
          /\ get_size(list) = Len(pushed)
          /\ is_empty(list) <=> (pushes - pops = 0)
          /\ Yielded(list.head) =
               [i \in 1 .. Len(pushed) + 1 |->
                  IF i <= Len(pushed) THEN Some(pushed[i]) ELSE None]
          /\ eq(clone(list), list)
          /\ eq(list, clone(list)))
    /\ [][(calls' = calls + 1 /\ pushes' = pushes) =>
            IF pushed = <<>>
            THEN popped' = None /\ list' = list /\ pops' = pops
            ELSE popped' = Some(Head(pushed)) /\ pops' = pops + 1]_vars

\* As in test_list: three values pushed, the latest popped again, two left.
C36_Witness ==
    /\ pushes = 3
    /\ pops = 1
    /\ get_size(list) = 2
    /\ popped = Some(pushed[1] + 1)
    /\ Yielded(list.head) = <<Some(pushed[1]), Some(pushed[2]), None>>

====
